---- MODULE Spec2Model ----
(***************************************************************************)
(* html_to_text: the tree walker (LXMLParser), the text extraction engine  *)
(* (HTMLParser) and the facade (html_to_text) of src/html_to_text.py.      *)
(*                                                                         *)
(* Text is a sequence of one-character strings.  The walker variables      *)
(* (trace, stack, pc) generate every well-formed element tree within the   *)
(* bounds, event by event, in the order LXMLParser.parse_tag visits it;    *)
(* `parser` is the HTMLParser object fed with those events.  `twin` is a   *)
(* second conversion of the same tree, run in lock-step, for statements    *)
(* that relate two conversions.                                            *)
(*                                                                         *)
(* Where the walk itself is the subject, the tree is given first (tree, a  *)
(* sequence of trees, one for each html_to_text call in progress) and      *)
(* parse_tag runs over it with its call stack; trace, stack, pc and parser *)
(* then hold one entry for each call.  Everywhere else item is empty.      *)
(*                                                                         *)
(* The tree is a document as tree_from_string returns it: the root has no  *)
(* tail, and a text or a tail is never the empty string.  An exception     *)
(* raised by a handler ends the conversion (pc = "raised").  The fields    *)
(* last_data and last_start are written and never read by the program; the *)
(* field out is never written.                                             *)
(***************************************************************************)
EXTENDS Integers, Sequences, FiniteSets, TLC

VARIABLES trace, stack, pc, parser, twin, tree

vars == <<trace, stack, pc, parser, twin, tree>>

\* ------------------------------------------------------------ constants

\* Python's None where an integer (id, offset, node reference) is expected.
None == -1

\* Python's None where text is expected.
NoneStr == <<"None">>

NL == <<"\n">>

\* Mutant: the separators of an open and of a close tag add up.
NLNL_twice == <<"\n", "\n", "\n", "\n">>

NLNL == <<"\n", "\n">>

RECURSIVE Dashes(_)
Dashes(n) == IF n = 0 THEN <<>> ELSE <<"-">> \o Dashes(n - 1)

HR_TEXT == NL \o Dashes(80)

_heading_tags == {"h1", "h2", "h3", "h4", "h5", "h6"}

_pre_tags == {"pre", "code"}

\* Mutant: td is missing from the table tags.
_table_tags_without_td == {"table", "tr", "th", "thead", "tbody", "tfoot"}

_table_tags == {"table", "tr", "td", "th", "thead", "tbody", "tfoot"}

_ignored == {"script", "style", "title"}

_block == {"p", "div", "center", "blockquote"}

heading_levels == [t \in _heading_tags |->
    CASE t = "h1" -> 1 [] t = "h2" -> 2 [] t = "h3" -> 3
      [] t = "h4" -> 4 [] t = "h5" -> 5 [] t = "h6" -> 6]

\* The characters Python's \s matches, among the characters of the model.
Whitespace == {" ", "\n", "\t"}

\* ------------------------------------------------------------ ContentState

STARTING_NORMAL == "starting_normal"
STARTING_PRE == "starting_pre"
STARTING_IGNORING == "starting_ignoring"
WRITING_NORMAL == "writing_normal"
WRITING_PRE == "writing_pre"
WRITING_IGNORING == "writing_ignoring"

ContentState == {STARTING_NORMAL, STARTING_PRE, STARTING_IGNORING,
                 WRITING_NORMAL, WRITING_PRE, WRITING_IGNORING}

is_in_pre(p) == p._pre_context

is_not_in_pre(p) == ~p._pre_context

\* Mutant: leaving ignoring mode outside a pre block starts the document anew.
transitions_starting_anew == {
    [trigger |-> "mark_writing", source |-> STARTING_NORMAL, dest |-> WRITING_NORMAL, conditions |-> "none"],
    [trigger |-> "mark_writing", source |-> STARTING_PRE, dest |-> WRITING_PRE, conditions |-> "none"],
    [trigger |-> "mark_writing", source |-> STARTING_IGNORING, dest |-> WRITING_IGNORING, conditions |-> "none"],
    [trigger |-> "enter_pre", source |-> STARTING_NORMAL, dest |-> STARTING_PRE, conditions |-> "none"],
    [trigger |-> "enter_pre", source |-> WRITING_NORMAL, dest |-> WRITING_PRE, conditions |-> "none"],
    [trigger |-> "exit_pre", source |-> STARTING_PRE, dest |-> STARTING_NORMAL, conditions |-> "none"],
    [trigger |-> "exit_pre", source |-> WRITING_PRE, dest |-> WRITING_NORMAL, conditions |-> "none"],
    [trigger |-> "enter_ignoring", source |-> STARTING_NORMAL, dest |-> STARTING_IGNORING, conditions |-> "none"],
    [trigger |-> "enter_ignoring", source |-> STARTING_PRE, dest |-> STARTING_IGNORING, conditions |-> "none"],
    [trigger |-> "enter_ignoring", source |-> WRITING_NORMAL, dest |-> WRITING_IGNORING, conditions |-> "none"],
    [trigger |-> "enter_ignoring", source |-> WRITING_PRE, dest |-> WRITING_IGNORING, conditions |-> "none"],
    [trigger |-> "exit_ignoring", source |-> STARTING_IGNORING, dest |-> STARTING_NORMAL, conditions |-> "is_not_in_pre"],
    [trigger |-> "exit_ignoring", source |-> STARTING_IGNORING, dest |-> STARTING_PRE, conditions |-> "is_in_pre"],
    [trigger |-> "exit_ignoring", source |-> WRITING_IGNORING, dest |-> STARTING_NORMAL, conditions |-> "is_not_in_pre"],
    [trigger |-> "exit_ignoring", source |-> WRITING_IGNORING, dest |-> WRITING_PRE, conditions |-> "is_in_pre"]}

\* The transition table handed to transitions.Machine.
transitions == {
    [trigger |-> "mark_writing", source |-> STARTING_NORMAL, dest |-> WRITING_NORMAL, conditions |-> "none"],
    [trigger |-> "mark_writing", source |-> STARTING_PRE, dest |-> WRITING_PRE, conditions |-> "none"],
    [trigger |-> "mark_writing", source |-> STARTING_IGNORING, dest |-> WRITING_IGNORING, conditions |-> "none"],
    [trigger |-> "enter_pre", source |-> STARTING_NORMAL, dest |-> STARTING_PRE, conditions |-> "none"],
    [trigger |-> "enter_pre", source |-> WRITING_NORMAL, dest |-> WRITING_PRE, conditions |-> "none"],
    [trigger |-> "exit_pre", source |-> STARTING_PRE, dest |-> STARTING_NORMAL, conditions |-> "none"],
    [trigger |-> "exit_pre", source |-> WRITING_PRE, dest |-> WRITING_NORMAL, conditions |-> "none"],
    [trigger |-> "enter_ignoring", source |-> STARTING_NORMAL, dest |-> STARTING_IGNORING, conditions |-> "none"],
    [trigger |-> "enter_ignoring", source |-> STARTING_PRE, dest |-> STARTING_IGNORING, conditions |-> "none"],
    [trigger |-> "enter_ignoring", source |-> WRITING_NORMAL, dest |-> WRITING_IGNORING, conditions |-> "none"],
    [trigger |-> "enter_ignoring", source |-> WRITING_PRE, dest |-> WRITING_IGNORING, conditions |-> "none"],
    [trigger |-> "exit_ignoring", source |-> STARTING_IGNORING, dest |-> STARTING_NORMAL, conditions |-> "is_not_in_pre"],
    [trigger |-> "exit_ignoring", source |-> STARTING_IGNORING, dest |-> STARTING_PRE, conditions |-> "is_in_pre"],
    [trigger |-> "exit_ignoring", source |-> WRITING_IGNORING, dest |-> WRITING_NORMAL, conditions |-> "is_not_in_pre"],
    [trigger |-> "exit_ignoring", source |-> WRITING_IGNORING, dest |-> WRITING_PRE, conditions |-> "is_in_pre"]}

\* Machine's trigger: the transition of the current state whose condition
\* holds is taken; a trigger with no such transition raises MachineError.
Fire(p, trigger) ==
    LET ok == {t \in transitions :
                 /\ t.trigger = trigger
                 /\ t.source = p.state
                 /\ CASE t.conditions = "is_in_pre" -> is_in_pre(p)
                      [] t.conditions = "is_not_in_pre" -> is_not_in_pre(p)
                      [] OTHER -> TRUE}
    IN IF ok = {} THEN [p EXCEPT !.raised = "MachineError"]
       ELSE [p EXCEPT !.state = (CHOOSE t \in ok : TRUE).dest]

is_ignoring(p) == p.state \in {STARTING_IGNORING, WRITING_IGNORING}

\* Mutant: pre mode is recognised only once something has been written.
is_in_pre_mode_writing_only(p) == p.state = WRITING_PRE

is_in_pre_mode(p) == p.state \in {STARTING_PRE, WRITING_PRE}

is_starting(p) == p.state \in {STARTING_NORMAL, STARTING_PRE, STARTING_IGNORING}

_enter_pre_mode(p) ==
    IF ~is_ignoring(p) /\ ~is_in_pre_mode(p) THEN Fire(p, "enter_pre") ELSE p

_exit_pre_mode(p) ==
    IF is_in_pre_mode(p) THEN Fire(p, "exit_pre") ELSE p

_enter_ignoring_mode(p) ==
    Fire([p EXCEPT !._pre_context = is_in_pre_mode(p)], "enter_ignoring")

_exit_ignoring_mode(p) ==
    LET q == Fire(p, "exit_ignoring")
    IN IF q.raised # "" THEN q ELSE [q EXCEPT !._pre_context = FALSE]

_mark_writing(p) ==
    IF is_starting(p) THEN Fire(p, "mark_writing") ELSE p

\* ------------------------------------------------------------ the writer

\* self.output.tell()
tell(p) == Len(p.output)

write_data(p, data) ==
    _mark_writing([p EXCEPT !.output = @ \o data,
                            !.last_newline = (data[Len(data)] = "\n"),
                            !.last_data = data])

\* ------------------------------------------------------------ the callback

\* The node a callback call creates and returns: the collecting callback of
\* the test suite numbers the nodes 1, 2, ... and keeps every keyword
\* argument.  A node is referred to by its index in p.nodes.
NewNode(p, parent, type, name, start) ==
    [id |-> Len(p.nodes) + 1, parent |-> parent, type |-> type, name |-> name,
     start |-> start, end |-> None, tag |-> "None", level |-> "None",
     href |-> NoneStr, pagenum |-> NoneStr, attrs |-> [k \in {} |-> ""]]

\* The call of the callback: p.nodes holds the object each call returned.
\* The callback of test_callback_must_return_dict_with_id (p.bad_callback)
\* returns an object without an id.
node_parsed_callback(p, node) ==
    [p EXCEPT !.nodes = Append(@, IF p.bad_callback
                                  THEN [k \in DOMAIN node \ {"id"} |-> node[k]]
                                  ELSE node)]

\* ------------------------------------------------------------ page numbers

Digits == {"0", "1", "2", "3", "4", "5", "6", "7", "8", "9"}

lower(c) ==
    CASE c = "P" -> "p" [] c = "X" -> "x" [] c = "V" -> "v" [] c = "I" -> "i"
      [] c = "A" -> "a" [] OTHER -> c

\* The longest run of digits at the end of num.
RECURSIVE TrailingDigits(_)
TrailingDigits(num) ==
    IF num = <<>> \/ num[Len(num)] \notin Digits THEN <<>>
    ELSE TrailingDigits(SubSeq(num, 1, Len(num) - 1)) \o <<num[Len(num)]>>

\* str(int(digits)): the leading zeros go, one digit at least stays.
RECURSIVE StripZeros(_)
StripZeros(ds) ==
    IF Len(ds) > 1 /\ ds[1] = "0" THEN StripZeros(Tail(ds)) ELSE ds

\* pagenum_re.search(num), pagenum_re = (\d+)$: group 1 of the match, <<>>
\* when there is none.  Python's $ matches at the end of the string and
\* just before a newline that ends the string.
pagenum_re_search(num) ==
    IF num # <<>> /\ num[Len(num)] = "\n"
    THEN TrailingDigits(SubSeq(num, 1, Len(num) - 1))
    ELSE TrailingDigits(num)

parse_pagenum(num) ==
    IF pagenum_re_search(num) # <<>> THEN StripZeros(pagenum_re_search(num))
    ELSE IF num # <<>> /\ num[1] = "p"
         THEN [i \in 1..(Len(num) - 1) |-> lower(num[i + 1])]
         ELSE NoneStr

\* ------------------------------------------------------------ link targets

RECURSIVE HasSub(_, _)
\* sub in s
HasSub(s, sub) ==
    IF Len(s) < Len(sub) THEN FALSE
    ELSE IF SubSeq(s, 1, Len(sub)) = sub THEN TRUE
    ELSE HasSub(Tail(s), sub)

HexDigits == Digits \cup {"A", "B", "C", "D", "E", "F", "a", "b", "c", "d", "e", "f"}

\* The character a %XX escape stands for, among the characters of the model.
Unhex(a, b) ==
    CASE a = "2" /\ b = "0" -> " "
      [] a = "2" /\ b \in {"E", "e"} -> "."
      [] a = "2" /\ b \in {"F", "f"} -> "/"
      [] a = "6" /\ b = "1" -> "a"
      [] a = "7" /\ b = "8" -> "x"
      [] OTHER -> "?"

RECURSIVE unquote(_)
\* urllib.parse.unquote: every %XX escape is replaced by its character
unquote(s) ==
    IF s = <<>> THEN <<>>
    ELSE IF s[1] = "%" /\ Len(s) >= 3 /\ s[2] \in HexDigits /\ s[3] \in HexDigits
         THEN <<Unhex(s[2], s[3])>> \o unquote(SubSeq(s, 4, Len(s)))
         ELSE <<s[1]>> \o unquote(Tail(s))

RECURSIVE RStripSlash(_)
RStripSlash(s) ==
    IF s # <<>> /\ s[Len(s)] = "/" THEN RStripSlash(SubSeq(s, 1, Len(s) - 1)) ELSE s

\* posixpath.dirname
dirname(p) ==
    LET slashes == {i \in 1..Len(p) : p[i] = "/"}
        i == IF slashes = {} THEN 0 ELSE CHOOSE k \in slashes : \A j \in slashes : j <= k
        head == SubSeq(p, 1, i)
    IN IF head # <<>> /\ RStripSlash(head) # <<>> THEN RStripSlash(head) ELSE head

\* posixpath.join of two paths
join(a, b) ==
    IF b # <<>> /\ b[1] = "/" THEN b
    ELSE IF a = <<>> \/ a[Len(a)] = "/" THEN a \o b
    ELSE a \o <<"/">> \o b

RECURSIVE Split(_, _)
\* path.split("/"), cur being the component read so far
Split(s, cur) ==
    IF s = <<>> THEN <<cur>>
    ELSE IF s[1] = "/" THEN <<cur>> \o Split(Tail(s), <<>>)
    ELSE Split(Tail(s), Append(cur, s[1]))

RECURSIVE NormComps(_, _, _)
\* the loop of posixpath.normpath over the components
NormComps(comps, new_comps, initial_slashes) ==
    IF comps = <<>> THEN new_comps
    ELSE LET comp == Head(comps)
             n == Len(new_comps)
         IN IF comp = <<>> \/ comp = <<".">> THEN NormComps(Tail(comps), new_comps, initial_slashes)
            ELSE IF \/ comp # <<".", ".">>
                    \/ (initial_slashes = 0 /\ n = 0)
                    \/ (n > 0 /\ new_comps[n] = <<".", ".">>)
                 THEN NormComps(Tail(comps), Append(new_comps, comp), initial_slashes)
                 ELSE IF n > 0 THEN NormComps(Tail(comps), SubSeq(new_comps, 1, n - 1), initial_slashes)
                      ELSE NormComps(Tail(comps), new_comps, initial_slashes)

RECURSIVE JoinSlash(_)
JoinSlash(comps) ==
    IF comps = <<>> THEN <<>>
    ELSE IF Len(comps) = 1 THEN comps[1]
    ELSE comps[1] \o <<"/">> \o JoinSlash(Tail(comps))

\* Mutant: the path is left as it is.
normpath_none(path) == path

\* posixpath.normpath
normpath(path) ==
    IF path = <<>> THEN <<".">>
    ELSE LET initial_slashes ==
                 IF path[1] # "/" THEN 0
                 ELSE IF Len(path) >= 2 /\ path[2] = "/" /\ ~(Len(path) >= 3 /\ path[3] = "/")
                      THEN 2 ELSE 1
             body == JoinSlash(NormComps(Split(path, <<>>), <<>>, initial_slashes))
             res == [i \in 1..initial_slashes |-> "/"] \o body
         IN IF res = <<>> THEN <<".">> ELSE res

\* The href add_link passes to the callback.
resolve_href(file, href) ==
    IF HasSub(href, <<":", "/", "/">>) THEN href
    ELSE normpath(join(dirname(file), unquote(href)))

\* ------------------------------------------------------------ headings

\* item[-1] of a heading tag name
LastChar(item) ==
    CASE item = "h1" -> "1" [] item = "h2" -> "2" [] item = "h3" -> "3"
      [] item = "h4" -> "4" [] item = "h5" -> "5" [] item = "h6" -> "6"

\* Mutant: a frame of the heading's own level is kept on the stack.
need_heading_pop_strict(p, level) ==
    IF Len(p.heading_stack) = 0 THEN FALSE
    ELSE level < p.heading_stack[Len(p.heading_stack)].level

need_heading_pop(p, level) ==
    IF Len(p.heading_stack) = 0 THEN FALSE
    ELSE level <= p.heading_stack[Len(p.heading_stack)].level

\* Mutant: an if in place of the while, one frame at most is popped.
PopOnceIfNeeded(p, level) ==
    IF Len(p.heading_stack) > 0 /\ level <= p.heading_stack[Len(p.heading_stack)].level
    THEN [p EXCEPT !.heading_stack = SubSeq(@, 1, Len(@) - 1)]
    ELSE p

RECURSIVE PopWhileNeeded(_, _)
\* while self.need_heading_pop(level): self.heading_stack.pop()
PopWhileNeeded(p, level) ==
    IF need_heading_pop(p, level)
    THEN PopWhileNeeded([p EXCEPT !.heading_stack = SubSeq(@, 1, Len(@) - 1)], level)
    ELSE p

\* Mutant: .get("id") in place of ["id"], a missing id is read as None.
add_heading_node_get(p, item) ==
    IF p.heading_stack = <<>> THEN [p EXCEPT !.raised = "IndexError"]
    ELSE LET top == p.heading_stack[Len(p.heading_stack)]
             end == tell(p) + p.startpos
             p1 == PopWhileNeeded([p EXCEPT !.heading_stack = SubSeq(@, 1, Len(@) - 1)], top.level)
             parent == IF Len(p1.heading_stack) > 0
                       THEN p1.heading_stack[Len(p1.heading_stack)].id ELSE None
             node == [NewNode(p1, parent, "heading", NoneStr, top.start) EXCEPT
                        !.end = end, !.tag = item, !.level = LastChar(item)]
             p2 == node_parsed_callback(p1, node)
             returned == p2.nodes[Len(p2.nodes)]
         IN [p2 EXCEPT !.heading_stack =
                 Append(@, [level |-> top.level, start |-> top.start,
                            id |-> IF "id" \in DOMAIN returned THEN returned.id ELSE None])]

add_heading_node(p, item) ==
    IF p.heading_stack = <<>> THEN [p EXCEPT !.raised = "IndexError"]
    ELSE LET top == p.heading_stack[Len(p.heading_stack)]
             end == tell(p) + p.startpos
             p1 == PopWhileNeeded([p EXCEPT !.heading_stack = SubSeq(@, 1, Len(@) - 1)], top.level)
             parent == IF Len(p1.heading_stack) > 0
                       THEN p1.heading_stack[Len(p1.heading_stack)].id ELSE None
             node == [NewNode(p1, parent, "heading", NoneStr, top.start) EXCEPT
                        !.end = end, !.tag = item, !.level = LastChar(item)]
             p2 == node_parsed_callback(p1, node)
             returned == p2.nodes[Len(p2.nodes)]
         IN IF "id" \notin DOMAIN returned THEN [p2 EXCEPT !.raised = "KeyError"]
            ELSE [p2 EXCEPT !.heading_stack =
                     Append(@, [level |-> top.level, start |-> top.start, id |-> returned.id])]

add_link(p, item) ==
    LET node == [NewNode(p, None, "link", item.string, p.link_start) EXCEPT
                    !.end = tell(p) + p.startpos,
                    !.href = resolve_href(p.file, item.attrib.href)]
    IN node_parsed_callback(p, node)

\* ------------------------------------------------------------ the handlers

\* attrs.get(key, None) == value
AttrIs(attrs, key, value) == key \in DOMAIN attrs /\ attrs[key] = value

\* The would-be start offset of a heading or a link.
WouldBeStart(p) ==
    tell(p) + p.startpos
      + (IF ~is_starting(p) THEN Len(p.add) ELSE 0)
      + (IF p.final_space THEN 1 ELSE 0)

\* Mutant: the longer of the pending separator and "\n" is kept.
QueueNewline_longest(p) == IF Len(p.add) > 1 THEN p ELSE [p EXCEPT !.add = NL]

\* Mutant: the separator is queued only when no callback is given.
QueueNewline_without_callback(p) ==
    IF p.node_parsed_callback THEN p ELSE [p EXCEPT !.add = NL]

\* self.add = "\n" at the open tag of a pre, code, dd or dt element.
QueueNewline(p) == [p EXCEPT !.add = NL]

handle_starttag(p, tag, attrs) ==
    IF is_ignoring(p) THEN p
    ELSE IF tag \in _ignored \/ AttrIs(attrs, "class", "pagenum") THEN _enter_ignoring_mode(p)
    ELSE
      LET p1 == IF tag \in _block THEN [p EXCEPT !.add = NLNL, !.final_space = FALSE]
                ELSE IF tag \in _heading_tags THEN
                    LET q == [p EXCEPT !.add = NLNL, !.final_space = FALSE]
                    IN IF q.node_parsed_callback
                       THEN [q EXCEPT !.heading_stack =
                               Append(@, [level |-> heading_levels[tag],
                                          start |-> WouldBeStart(q), id |-> None])]
                       ELSE q
                ELSE p
          p2 == IF tag \in _pre_tags THEN _enter_pre_mode(QueueNewline(p1)) ELSE p1
          p3 == IF tag = "a" /\ "href" \in DOMAIN attrs
                THEN [p2 EXCEPT !.link_start = WouldBeStart(p2)] ELSE p2
          p4 == IF tag \in {"dd", "dt"} THEN QueueNewline(p3) ELSE p3
          p5 == IF "id" \in DOMAIN attrs /\ p4.node_parsed_callback
                THEN node_parsed_callback(p4,
                        NewNode(p4, None, "id", p4.file \o <<"#">> \o attrs.id,
                                tell(p4) + p4.startpos + Len(p4.add)))
                ELSE p4
      IN IF tag \in _table_tags /\ p5.node_parsed_callback
         THEN IF /\ p5.table_stack # <<>>
                 /\ "id" \notin DOMAIN p5.nodes[p5.table_stack[Len(p5.table_stack)]]
              THEN [p5 EXCEPT !.raised = "KeyError"]
              ELSE
                LET parent == IF p5.table_stack # <<>>
                              THEN p5.nodes[p5.table_stack[Len(p5.table_stack)]].id
                              ELSE None
                    node == [NewNode(p5, parent, tag, NoneStr,
                                     tell(p5) + p5.startpos + Len(p5.add))
                               EXCEPT !.attrs = attrs]
                    p6 == node_parsed_callback(p5, node)
                IN [p6 EXCEPT !.table_stack = Append(@, Len(p6.nodes))]
         ELSE p5

\* The class=pagenum part of handle_endtag: the open page marker is closed
\* and the page event emitted.
EndPagenum(p, item) ==
    IF ~AttrIs(item.attrib, "class", "pagenum") THEN p
    ELSE LET p1 == IF p.last_page # None
                   THEN [p EXCEPT !.nodes[p.last_page].end = tell(p) + p.startpos]
                   ELSE p
         IN IF ~p1.node_parsed_callback THEN p1
            ELSE IF "id" \notin DOMAIN item.attrib THEN [p1 EXCEPT !.raised = "KeyError"]
            ELSE LET node == [NewNode(p1, None, "page", item.attrib.id,
                                      tell(p1) + p1.startpos)
                                EXCEPT !.pagenum = parse_pagenum(item.attrib.id)]
                     p2 == node_parsed_callback(p1, node)
                 IN [p2 EXCEPT !.last_page = Len(p2.nodes)]

\* Mutant: the newline of a br is queued like a separator.
EndBr_queued(p) == [p EXCEPT !.add = NL]

\* The br branch of handle_endtag: the newline is written at once.
EndBr(p) == write_data(p, NL)

\* The hr branch of handle_endtag: the rule goes straight to the output.
EndHr(p) == [p EXCEPT !.output = @ \o HR_TEXT]

handle_endtag(p, tag, item) ==
    LET p1 == EndPagenum(p, item)
    IN IF p1.raised # "" THEN p1
       ELSE IF tag \in _ignored \/ AttrIs(item.attrib, "class", "pagenum")
            THEN _exit_ignoring_mode(p1)
       ELSE
         LET p2 ==
               IF tag \in _block THEN [p1 EXCEPT !.add = NLNL]
               ELSE IF tag = "br" THEN EndBr(p1)
               ELSE IF tag \in _heading_tags THEN
                   IF p1.node_parsed_callback
                   THEN add_heading_node([p1 EXCEPT !.add = NLNL], tag)
                   ELSE [p1 EXCEPT !.add = NLNL]
               ELSE IF tag \in _pre_tags THEN _exit_pre_mode(p1)
               ELSE IF tag = "a" /\ "href" \in DOMAIN item.attrib /\ p1.node_parsed_callback
                    THEN add_link(p1, item)
               ELSE IF tag = "hr" THEN EndHr(p1)
               ELSE IF tag \in _table_tags /\ p1.node_parsed_callback THEN
                   IF p1.table_stack = <<>> THEN [p1 EXCEPT !.raised = "IndexError"]
                   ELSE [p1 EXCEPT !.nodes[p1.table_stack[Len(p1.table_stack)]].end =
                                       tell(p1) + p1.startpos,
                                   !.table_stack = SubSeq(@, 1, Len(@) - 1)]
               ELSE p1
         IN IF p2.raised # "" THEN p2 ELSE [p2 EXCEPT !.last_start = tag]

RECURSIVE whitespace_sub_each(_)
\* Mutant: \s in place of \s+, every whitespace character becomes a space.
whitespace_sub_each(data) ==
    IF data = <<>> THEN <<>>
    ELSE <<IF data[1] \in Whitespace THEN " " ELSE data[1]>> \o whitespace_sub_each(Tail(data))

RECURSIVE whitespace_sub_dash(_)
\* Mutant: "-" in place of " " as the replacement of a run of whitespace.
whitespace_sub_dash(data) ==
    IF data = <<>> THEN <<>>
    ELSE IF data[1] \in Whitespace
         THEN IF Len(data) >= 2 /\ data[2] \in Whitespace
              THEN whitespace_sub_dash(Tail(data))
              ELSE <<"-">> \o whitespace_sub_dash(Tail(data))
         ELSE <<data[1]>> \o whitespace_sub_dash(Tail(data))

RECURSIVE whitespace_sub(_)
\* whitespace_re.sub(" ", data): every maximal run of whitespace becomes one space
whitespace_sub(data) ==
    IF data = <<>> THEN <<>>
    ELSE IF data[1] \in Whitespace
         THEN IF Len(data) >= 2 /\ data[2] \in Whitespace
              THEN whitespace_sub(Tail(data))
              ELSE <<" ">> \o whitespace_sub(Tail(data))
         ELSE <<data[1]>> \o whitespace_sub(Tail(data))

handle_data(p, data, start_tag) ==
    IF is_ignoring(p) THEN p
    ELSE IF data = <<>> THEN [p EXCEPT !.raised = "IndexError"]
    ELSE IF is_in_pre_mode(p) THEN
        LET p1 == IF p.add # <<>> THEN [write_data(p, p.add) EXCEPT !.add = <<>>] ELSE p
        IN write_data(p1, data)
    ELSE
        LET d0 == whitespace_sub(data)
            lead == d0[1] = " "
            p1 == IF lead THEN [p EXCEPT !.initial_space = TRUE] ELSE p
            d1 == IF lead THEN Tail(d0) ELSE d0
        IN IF d1 = <<>> THEN p1
           ELSE
             LET p2 == IF p1.add = <<>> /\ p1.final_space
                       THEN [write_data(p1, <<" ">>) EXCEPT !.final_space = FALSE]
                       ELSE p1
                 trail == d1[Len(d1)] = " "
                 p3 == IF trail THEN [p2 EXCEPT !.final_space = TRUE] ELSE p2
                 d2 == IF trail THEN SubSeq(d1, 1, Len(d1) - 1) ELSE d1
                 p4 == IF is_starting(p3)
                       THEN [p3 EXCEPT !.initial_space = FALSE, !.add = <<>>]
                       ELSE p3
                 p5 == IF p4.add # <<>>
                       THEN [write_data(p4, p4.add) EXCEPT !.add = <<>>]
                       ELSE p4
                 p6 == IF p5.initial_space /\ ~p5.last_newline
                       THEN write_data(p5, <<" ">>)
                       ELSE p5
                 p7 == write_data(p6, d2)
             IN [p7 EXCEPT !.add = <<>>, !.initial_space = FALSE]

\* Mutant: a comment is walked like an element, its content is its text.
parse_tag_comment_as_element(p, item) ==
    LET p1 == handle_starttag(p, item.tag, [k \in {} |-> ""])
        p2 == IF p1.raised # "" THEN p1 ELSE handle_data(p1, item.text, item.tag)
    IN IF p2.raised # "" THEN p2
       ELSE handle_endtag(p2, item.tag, [attrib |-> [k \in {} |-> ""], string |-> <<>>])

\* parse_tag on a comment or a processing instruction (item.tag is
\* lxml.etree.Comment or lxml.etree.PI): no handler is called for the node,
\* and item.text, its content, is not looked at.
parse_tag_comment(p, item) == p

\* HTMLParser.__init__: the parser before the walk.
NewParser(callback, startpos, file) ==
    [node_parsed_callback |-> callback, startpos |-> startpos, file |-> file,
     output |-> <<>>, add |-> <<>>, initial_space |-> FALSE, _pre_context |-> FALSE,
     last_data |-> <<>>, final_space |-> FALSE, heading_stack |-> <<>>,
     last_page |-> None, table_stack |-> <<>>, last_newline |-> FALSE,
     last_start |-> "", link_start |-> 0, state |-> STARTING_NORMAL,
     nodes |-> <<>>, bad_callback |-> FALSE, raised |-> ""]

\* html_to_text after the walk: the last open page marker is closed.
CloseLastPage(p) ==
    IF p.last_page # None THEN [p EXCEPT !.nodes[p.last_page].end = tell(p)] ELSE p

\* ------------------------------------------------------------ the walker

NoAttrs == [k \in {} |-> ""]

\* An element without attributes.
El(tag) == [tag |-> tag, attrs |-> NoAttrs]

\* The element whose start event is trace[i].
ElementAt(i) == [tag |-> trace[i].tag, attrs |-> trace[i].attrs]

RECURSIVE TextFrom(_)
\* The text of the data events from event i on, in document order.
TextFrom(i) ==
    IF i > Len(trace) THEN <<>>
    ELSE (IF trace[i].ev = "data" THEN trace[i].data ELSE <<>>) \o TextFrom(i + 1)

\* _collect_string_content(item) at the close of the element opened by event i.
StringOf(i) == TextFrom(i + 1)

\* An entry of the trace: the event, the open elements around it (anc, the
\* indices of their start events), for an end event the index of its start
\* event (at), the length of the output when the event was reached (pos),
\* whether the parser was ignoring then (ignoring) and its content mode
\* then (state).
Event(ev, tag, attrs, data, anc, at) ==
    [ev |-> ev, tag |-> tag, attrs |-> attrs, data |-> data, anc |-> anc,
     at |-> at, pos |-> tell(parser), ignoring |-> is_ignoring(parser),
     state |-> parser.state]

\* A handler's result, or the parser as it is once an exception has ended the run.
Alive(p, q) == IF p.raised # "" THEN p ELSE q

\* The lock-step conversion, when there is one, takes the same step.
TwinStart(tag, attrs) ==
    IF twin.on THEN [twin EXCEPT !.p = Alive(@, handle_starttag(@, tag, attrs))] ELSE twin

TwinEnd(tag, item) ==
    IF twin.on THEN [twin EXCEPT !.p = Alive(@, handle_endtag(@, tag, item))] ELSE twin

TwinData(data, start_tag) ==
    IF twin.on THEN [twin EXCEPT !.p = Alive(@, handle_data(@, data, start_tag))] ELSE twin

TwinComment(item) ==
    IF twin.on THEN [twin EXCEPT !.p = Alive(@, parse_tag_comment(@, item))] ELSE twin

TwinFinish ==
    IF twin.on THEN [twin EXCEPT !.p = Alive(@, CloseLastPage(@))] ELSE twin

NoTwin == [on |-> FALSE, p |-> NewParser(FALSE, 0, <<>>)]

\* The state before html_to_text walks the tree.
InitWith(callbacks, startposes, files) ==
    /\ trace = <<>>
    /\ stack = <<>>
    /\ pc = "walk"
    /\ \E cb \in callbacks, sp \in startposes, f \in files :
          parser = NewParser(cb, sp, f)
    /\ twin = NoTwin
    /\ tree = <<>>

\* parse_tag reaches an element: handle_starttag.  The element is the root
\* or a child of the innermost open element.
StartTag(e, maxEvents, maxDepth) ==
    /\ pc = "walk"
    /\ trace = <<>> \/ stack # <<>>
    /\ Len(stack) < maxDepth
    /\ Len(trace) + Len(stack) + 2 <= maxEvents
    /\ trace' = Append(trace, Event("start", e.tag, e.attrs, <<>>, stack, 0))
    /\ stack' = Append(stack, Len(trace) + 1)
    /\ parser' = handle_starttag(parser, e.tag, e.attrs)
    /\ twin' = TwinStart(e.tag, e.attrs)
    /\ pc' = IF parser'.raised # "" THEN "raised" ELSE "walk"
    /\ UNCHANGED tree

\* parse_tag passes a text (right after the start tag) or a tail (after an
\* end tag or a comment) to handle_data; lxml gives no empty text.
Data(d, maxEvents) ==
    /\ pc = "walk"
    /\ stack # <<>>
    /\ trace[Len(trace)].ev # "data"
    /\ Len(trace) + Len(stack) + 1 <= maxEvents
    /\ LET start_tag == IF trace[Len(trace)].ev = "start"
                        THEN trace[Len(trace)].tag ELSE "None"
       IN /\ parser' = handle_data(parser, d, start_tag)
          /\ twin' = TwinData(d, start_tag)
    /\ trace' = Append(trace, Event("data", "None", NoAttrs, d, stack, 0))
    /\ pc' = IF parser'.raised # "" THEN "raised" ELSE "walk"
    /\ UNCHANGED <<stack, tree>>

\* parse_tag has visited the children of the innermost open element:
\* handle_endtag.
EndTag ==
    /\ pc = "walk"
    /\ stack # <<>>
    /\ LET at == stack[Len(stack)]
           tag == trace[at].tag
           item == [attrib |-> trace[at].attrs, string |-> StringOf(at)]
       IN /\ parser' = handle_endtag(parser, tag, item)
          /\ twin' = TwinEnd(tag, item)
          /\ trace' = Append(trace, Event("end", tag, trace[at].attrs, <<>>,
                                           SubSeq(stack, 1, Len(stack) - 1), at))
    /\ stack' = SubSeq(stack, 1, Len(stack) - 1)
    /\ pc' = IF parser'.raised # "" THEN "raised" ELSE "walk"
    /\ UNCHANGED tree

\* parse_tag reaches a comment or a processing instruction (item, its tag
\* "Comment" or "PI" and its text the content): no handler runs for the
\* node itself, its tail is data like any other.
Comment(item, maxEvents) ==
    /\ pc = "walk"
    /\ stack # <<>>
    /\ Len(trace) + Len(stack) + 1 <= maxEvents
    /\ trace' = Append(trace, Event("comment", item.tag, NoAttrs, item.text, stack, 0))
    /\ parser' = parse_tag_comment(parser, item)
    /\ twin' = TwinComment(item)
    /\ pc' = IF parser'.raised # "" THEN "raised" ELSE "walk"
    /\ UNCHANGED <<stack, tree>>

\* html_to_text returns: the walk is over, the last page marker is closed
\* and the text is parser.output.
Finish ==
    /\ pc = "walk"
    /\ stack = <<>>
    /\ trace # <<>>
    /\ parser' = CloseLastPage(parser)
    /\ twin' = TwinFinish
    /\ pc' = "done"
    /\ UNCHANGED <<trace, stack, tree>>

\* ------------------------------------------------------------ the conversion as a function

RECURSIVE DataBetween(_, _, _)
\* The text of the data events evs[i..j]: string() of an element of a tree
\* given as its sequence of events.
DataBetween(evs, i, j) ==
    IF i > j THEN <<>>
    ELSE (IF evs[i].ev = "data" THEN evs[i].data ELSE <<>>) \o DataBetween(evs, i + 1, j)

RECURSIVE parse_tag(_, _, _, _)
\* LXMLParser.parse_tag over a tree given as its sequence of events, from
\* event i on; open holds the indices of the start events of the open
\* elements.  An exception ends the walk.
parse_tag(p, evs, i, open) ==
    IF i > Len(evs) \/ p.raised # "" THEN p
    ELSE LET e == evs[i]
         IN CASE e.ev = "start" ->
                   parse_tag(handle_starttag(p, e.tag, e.attrs), evs, i + 1, Append(open, i))
              [] e.ev = "data" ->
                   parse_tag(handle_data(p, e.data, "None"), evs, i + 1, open)
              [] e.ev = "end" ->
                   LET at == open[Len(open)]
                       item == [attrib |-> evs[at].attrs,
                                string |-> DataBetween(evs, at + 1, i - 1)]
                   IN parse_tag(handle_endtag(p, e.tag, item), evs, i + 1,
                                SubSeq(open, 1, Len(open) - 1))
              [] OTHER ->
                   parse_tag(parse_tag_comment(p, [tag |-> e.tag, text |-> e.data]),
                             evs, i + 1, open)

\* html_to_text(item, node_parsed_callback, startpos, file) for the tree
\* whose events are evs: the parser as it is when the text is returned, or
\* when an exception has ended the conversion.
html_to_text(evs, callback, startpos, file) ==
    LET p == parse_tag(NewParser(callback, startpos, file), evs, 1, <<>>)
    IN IF p.raised # "" THEN p ELSE CloseLastPage(p)

\* The index of the end event of the element opened by event i, 0 while the
\* element is open.
EndOf(i) ==
    IF \E j \in 1..Len(trace) : trace[j].ev = "end" /\ trace[j].at = i
    THEN CHOOSE j \in 1..Len(trace) : trace[j].ev = "end" /\ trace[j].at = i
    ELSE 0

\* The events of the tree without the childless element evs[a..b]: the text
\* before the element and the tail of the element become one text.
Without(evs, a, b) ==
    LET before == SubSeq(evs, 1, a - 1)
        after == SubSeq(evs, b + 1, Len(evs))
    IN IF a > 1 /\ evs[a - 1].ev = "data" /\ after # <<>> /\ after[1].ev = "data"
       THEN SubSeq(before, 1, a - 2)
              \o <<[evs[a - 1] EXCEPT !.data = @ \o after[1].data]>>
              \o Tail(after)
       ELSE before \o after

\* ------------------------------------------------------------ the walk over a given tree

\* A node of an lxml tree: tag ("Comment" and "PI" for the two kinds that
\* are not elements), attrib, text and tail (NoneStr where lxml has None)
\* and the index of its parent in the tree, 0 for the root.  A tree is the
\* sequence of its nodes in document order.
Node(tag, attrs, text, tail) ==
    [tag |-> tag, attrs |-> attrs, text |-> text, tail |-> tail, parent |-> 0]

IsElement(node) == node.tag \notin {"Comment", "PI"}

\* Iteration over an element (for tag in item): its children in document
\* order.
Children(t, n) ==
    LET S == {i \in 1..Len(t) : t[i].parent = n}
        nth[k \in 1..Cardinality(S)] ==
            CHOOSE i \in S : Cardinality({j \in S : j < i}) = k - 1
    IN nth

RECURSIVE OpenAt(_, _)
\* The nodes open after node j of a tree has been read: j and its ancestors.
OpenAt(t, j) == IF j = 0 THEN {} ELSE {j} \cup OpenAt(t, t[j].parent)

RECURSIVE TreesOf(_, _, _)
\* The trees of n nodes whose root carries one of roots and whose other
\* nodes carry one of labels: a node is a child of an element that is open
\* when it is read.
TreesOf(n, roots, labels) ==
    IF n = 1 THEN {<<r>> : r \in roots}
    ELSE UNION {{Append(t, [l EXCEPT !.parent = q]) :
                    l \in labels, q \in {a \in OpenAt(t, n - 1) : IsElement(t[a])}} :
                t \in TreesOf(n - 1, roots, labels)}

\* item.text or item.tail as a string, None being no text.
TextOf(x) == IF x = NoneStr THEN <<>> ELSE x

RECURSIVE string(_, _), string_of_all(_, _)
\* XPath string() of element n: its text and the text and tails of the
\* elements below it, in document order; comments have no string value
\* there, their tails do.
string(t, n) == TextOf(t[n].text) \o string_of_all(t, Children(t, n))

string_of_all(t, ns) ==
    IF ns = <<>> THEN <<>>
    ELSE (IF IsElement(t[ns[1]]) THEN string(t, ns[1]) ELSE <<>>)
           \o TextOf(t[ns[1]].tail) \o string_of_all(t, Tail(ns))

\* The HTMLParser instance that call c of html_to_text works on: the one
\* its own HTMLParser(...) expression created.
self_of_first_call(c) == 1

self(c) == c

\* The frame of parse_tag(item) on the call stack: the node, the line the
\* call is at and the number of children already walked.
Frame(n, at) == [node |-> n, pc |-> at, k |-> 0]

Top(c) == stack[c][Len(stack[c])]

At(c, label) == pc[c] = "walk" /\ stack[c] # <<>> /\ Top(c).pc = label

\* The innermost call moves on to the line label.
Goto(c, label) == [stack EXCEPT ![c][Len(stack[c])].pc = label]

\* The innermost call returns.
Pop(c) == [stack EXCEPT ![c] = SubSeq(@, 1, Len(@) - 1)]

\* Call c has called a handler for node n, which left the parser as q.
Handled(c, ev, n, data, q) ==
    /\ trace' = [trace EXCEPT ![c] = Append(@,
                    [ev |-> ev, tag |-> tree[c][n].tag, attrs |-> tree[c][n].attrs,
                     data |-> data, anc |-> <<>>, at |-> n,
                     pos |-> tell(parser[self(c)]),
                     ignoring |-> is_ignoring(parser[self(c)]),
                     state |-> parser[self(c)].state])]
    /\ parser' = [parser EXCEPT ![self(c)] = q]
    /\ pc' = [pc EXCEPT ![c] = IF q.raised # "" THEN "raised" ELSE "walk"]

\* html_to_text(item, ...) is called: HTMLParser(item, ...) sets up the
\* instance and LXMLParser.__init__ calls parse_tag(item).
Call(c, callback) ==
    /\ pc[c] = "new"
    /\ parser' = [parser EXCEPT ![self(c)] = NewParser(callback, 0, <<>>)]
    /\ stack' = [stack EXCEPT ![c] = <<Frame(1, "start")>>]
    /\ pc' = [pc EXCEPT ![c] = "walk"]
    /\ UNCHANGED <<trace, twin, tree>>

\* parse_tag(item), lines 52 and 53: an element gets handle_starttag, a
\* comment or processing instruction goes on to its tail.
WalkStart(c) ==
    /\ At(c, "start")
    /\ LET n == Top(c).node
           node == tree[c][n]
       IN IF IsElement(node)
          THEN /\ Handled(c, "start", n, <<>>,
                          handle_starttag(parser[self(c)], node.tag, node.attrs))
               /\ stack' = Goto(c, "text")
          ELSE /\ parser' = [parser EXCEPT ![self(c)] = parse_tag_comment(@, node)]
               /\ stack' = Goto(c, "tail")
               /\ UNCHANGED <<trace, pc>>
    /\ UNCHANGED <<twin, tree>>

\* Lines 54 and 55: the text of the element, unless it is None.
WalkText(c) ==
    /\ At(c, "text")
    /\ LET n == Top(c).node
           node == tree[c][n]
       IN IF node.text # NoneStr
          THEN Handled(c, "data", n, node.text,
                       handle_data(parser[self(c)], node.text, node.tag))
          ELSE UNCHANGED <<trace, parser, pc>>
    /\ stack' = Goto(c, "children")
    /\ UNCHANGED <<twin, tree>>

\* Lines 56 and 57: parse_tag is called for the next child.
WalkChildren(c) ==
    /\ At(c, "children")
    /\ LET f == Top(c)
           tags == Children(tree[c], f.node)
       IN /\ f.k < Len(tags)
          /\ stack' = [stack EXCEPT ![c] =
                          Append([@ EXCEPT ![Len(@)].k = f.k + 1],
                                 Frame(tags[f.k + 1], "start"))]
    /\ UNCHANGED <<trace, pc, parser, twin, tree>>

\* Line 58: the children are done, the element gets handle_endtag.
WalkEnd(c) ==
    /\ At(c, "children")
    /\ LET f == Top(c)
           node == tree[c][f.node]
           item == [attrib |-> node.attrs, string |-> string(tree[c], f.node)]
       IN /\ f.k = Len(Children(tree[c], f.node))
          /\ Handled(c, "end", f.node, <<>>,
                     handle_endtag(parser[self(c)], node.tag, item))
    /\ stack' = Goto(c, "tail")
    /\ UNCHANGED <<twin, tree>>

\* Lines 59 and 60: the tail of the node, unless it is None or empty; the
\* call returns.
WalkTail(c) ==
    /\ At(c, "tail")
    /\ LET n == Top(c).node
           node == tree[c][n]
       IN IF TextOf(node.tail) # <<>>
          THEN Handled(c, "tail", n, node.tail,
                       handle_data(parser[self(c)], node.tail, "None"))
          ELSE UNCHANGED <<trace, parser, pc>>
    /\ stack' = Pop(c)
    /\ UNCHANGED <<twin, tree>>

\* html_to_text returns the text: parse_tag(item) has returned, the last
\* page marker is closed.
Return(c) ==
    /\ pc[c] = "walk"
    /\ stack[c] = <<>>
    /\ parser' = [parser EXCEPT ![self(c)] = CloseLastPage(@)]
    /\ pc' = [pc EXCEPT ![c] = "done"]
    /\ UNCHANGED <<trace, stack, twin, tree>>

\* calls of html_to_text are about to be made, one for each of trees.
InitCalls(trees) ==
    /\ tree = trees
    /\ trace = [c \in 1..Len(trees) |-> <<>>]
    /\ stack = [c \in 1..Len(trees) |-> <<>>]
    /\ pc = [c \in 1..Len(trees) |-> "new"]
    /\ parser = [c \in 1..Len(trees) |-> NoTwin.p]
    /\ twin = NoTwin

RECURSIVE events_of(_, _), events_of_all(_, _)
\* The handler calls parse_tag makes for node n of t, as events for
\* parse_tag(p, evs, i, open).
events_of(t, n) ==
    LET node == t[n]
        E(ev, data) == [ev |-> ev, tag |-> node.tag, attrs |-> node.attrs, data |-> data]
    IN (IF IsElement(node)
        THEN <<E("start", <<>>)>>
               \o (IF node.text # NoneStr THEN <<E("data", node.text)>> ELSE <<>>)
               \o events_of_all(t, Children(t, n))
               \o <<E("end", <<>>)>>
        ELSE <<>>)
       \o (IF TextOf(node.tail) # <<>> THEN <<[E("data", node.tail) EXCEPT !.tag = "None"]>> ELSE <<>>)

events_of_all(t, ns) ==
    IF ns = <<>> THEN <<>> ELSE events_of(t, ns[1]) \o events_of_all(t, Tail(ns))

\* ------------------------------------------------------------ documents

\* A comment with the content c.
CommentOf(c) == [tag |-> "Comment", text |-> c]

\* A processing instruction with the content c.
PIOf(c) == [tag |-> "PI", text |-> c]

Pagenum(id) == [tag |-> "span", attrs |-> [class |-> "pagenum", id |-> id]]

Link(href) == [tag |-> "a", attrs |-> [href |-> href]]

\* Mixed documents: one element of every kind the handlers tell apart.
MaxEvents == 7

MaxDepth == 3

Elements == {El("p"), El("span"), El("h1"), El("pre"), El("br"), El("hr"), El("dd"),
             El("script"), El("td"), Link(<<"x">>), Pagenum(<<"p", "1">>)}

Fragments == {<<"a">>, <<" ">>, <<" ", "a", " ">>}

Init == InitWith({TRUE, FALSE}, {0}, {<<>>})

Next ==
    \/ \E e \in Elements : StartTag(e, MaxEvents, MaxDepth)
    \/ \E d \in Fragments : Data(d, MaxEvents)
    \/ EndTag
    \/ \E c \in {CommentOf(<<"c">>)} : Comment(c, MaxEvents)
    \/ Finish

Spec == Init /\ [][Next]_vars

\* A pre or code element alone, holding any text of up to MaxLen characters.
MaxLen == 3

Chars == {"a", " ", "\n", "\t"}

Strings == UNION {[1..n -> Chars] : n \in 1..MaxLen}

InitPreText == InitWith({FALSE}, {0}, {<<>>})

NextPreText ==
    \/ \E e \in {El("pre"), El("code")} : StartTag(e, 3, 1)
    \/ \E d \in Strings : Data(d, 3)
    \/ EndTag
    \/ Finish

SpecPreText == InitPreText /\ [][NextPreText]_vars

\* Nested pre, code and inline elements with text between them.
MaxEventsPre == 7

MaxDepthPre == 3

InitPre == InitWith({FALSE}, {0}, {<<>>})

NextPre ==
    \/ \E e \in {El("pre"), El("code"), El("span")} : StartTag(e, MaxEventsPre, MaxDepthPre)
    \/ \E d \in {<<"a">>, <<" ", " ", "b", "\n">>} : Data(d, MaxEventsPre)
    \/ EndTag
    \/ Finish

SpecPre == InitPre /\ [][NextPre]_vars

\* Headings, one after another, inside one another or inside a script
\* element, with a callback.
MaxEventsHead == 10

MaxDepthHead == 2

InitHead == InitWith({TRUE}, {0}, {<<>>})

NextHead ==
    \/ \E e \in {El("div"), El("script"),
                 El("h1"), El("h2"), El("h3"), El("h4"), El("h5"), El("h6")} :
          StartTag(e, MaxEventsHead, MaxDepthHead)
    \/ EndTag
    \/ Finish

SpecHead == InitHead /\ [][NextHead]_vars

\* Block and inline elements holding padded text, and comments.
MaxEventsTrim == 8

MaxDepthTrim == 3

InitTrim == InitWith({FALSE}, {0}, {<<>>})

NextTrim ==
    \/ \E e \in {El("p"), El("div"), El("span")} : StartTag(e, MaxEventsTrim, MaxDepthTrim)
    \/ \E d \in {<<"a">>, <<" ">>, <<" ", "\n", "a">>, <<"a", "\t", " ">>, <<" ", "a", " ", " ", "b", " ">>} :
          Data(d, MaxEventsTrim)
    \/ EndTag
    \/ \E c \in {CommentOf(<<"c">>)} : Comment(c, MaxEventsTrim)
    \/ Finish

SpecTrim == InitTrim /\ [][NextTrim]_vars

\* Anchors among inline text, with a callback.
MaxEventsLink == 9

MaxDepthLink == 2

InitLink == InitWith({TRUE}, {0}, {<<>>})

NextLink ==
    \/ \E e \in {El("span"), Link(<<"x">>)} : StartTag(e, MaxEventsLink, MaxDepthLink)
    \/ \E d \in {<<"a">>, <<" ">>, <<"a", " ">>} : Data(d, MaxEventsLink)
    \/ EndTag
    \/ Finish

SpecLink == InitLink /\ [][NextLink]_vars

\* The same tree converted with base offset Shift and with base offset 0.
Shift == 5

MaxEventsShift == 6

MaxDepthShift == 2

InitShift ==
    /\ trace = <<>>
    /\ stack = <<>>
    /\ pc = "walk"
    /\ parser = NewParser(TRUE, Shift, <<>>)
    /\ twin = [on |-> TRUE, p |-> NewParser(TRUE, 0, <<>>)]
    /\ tree = <<>>

NextShift ==
    \/ \E e \in {El("p"), El("h1"), El("td"), Link(<<"x">>), Pagenum(<<"p", "1">>),
                 [tag |-> "span", attrs |-> [id |-> <<"i">>]]} :
          StartTag(e, MaxEventsShift, MaxDepthShift)
    \/ \E d \in {<<"a">>} : Data(d, MaxEventsShift)
    \/ EndTag
    \/ Finish

SpecShift == InitShift /\ [][NextShift]_vars

\* Page markers among text, with a callback, at base offset 0 or Shift.
MaxEventsPage == 9

MaxDepthPage == 2

InitPage == InitWith({TRUE}, {0, Shift}, {<<>>})

NextPage ==
    \/ \E e \in {El("p"), Pagenum(<<"p", "1">>), Pagenum(<<"p", "i", "v">>)} :
          StartTag(e, MaxEventsPage, MaxDepthPage)
    \/ \E d \in {<<"a">>} : Data(d, MaxEventsPage)
    \/ EndTag
    \/ Finish

SpecPage == InitPage /\ [][NextPage]_vars

\* Block, heading and inline elements, empty or with text, no callback.
MaxEventsEmpty == 8

MaxDepthEmpty == 2

InitEmpty == InitWith({FALSE}, {0}, {<<>>})

NextEmpty ==
    \/ \E e \in {El("p"), El("h1"), El("span")} : StartTag(e, MaxEventsEmpty, MaxDepthEmpty)
    \/ \E d \in {<<"a">>, <<" ">>, <<"a", " ">>} : Data(d, MaxEventsEmpty)
    \/ EndTag
    \/ Finish

SpecEmpty == InitEmpty /\ [][NextEmpty]_vars

\* Inline elements and normal-mode text fragments, no callback.
MaxEventsInline == 8

MaxDepthInline == 2

InitInline == InitWith({FALSE}, {0}, {<<>>})

NextInline ==
    \/ \E e \in {El("span"), El("em")} : StartTag(e, MaxEventsInline, MaxDepthInline)
    \/ \E d \in {<<"a">>, <<" ">>, <<"a", " ">>, <<" ", "a">>, <<"a", " ", "\n", "b">>} :
          Data(d, MaxEventsInline)
    \/ EndTag
    \/ Finish

SpecInline == InitInline /\ [][NextInline]_vars

\* Normal-mode elements around one text of up to MaxLen characters.
MaxEventsNorm == 4

MaxDepthNorm == 2

InitNorm == InitWith({FALSE}, {0}, {<<>>})

NextNorm ==
    \/ \E e \in {El("p"), El("span"), El("h1")} : StartTag(e, MaxEventsNorm, MaxDepthNorm)
    \/ \E d \in Strings : Data(d, MaxEventsNorm)
    \/ EndTag
    \/ Finish

SpecNorm == InitNorm /\ [][NextNorm]_vars

\* Block, heading and inline elements around padded text, with or without
\* a callback.
MaxEventsSep == 8

MaxDepthSep == 3

InitSep == InitWith({TRUE, FALSE}, {0}, {<<>>})

NextSep ==
    \/ \E e \in {El("p"), El("h1"), El("h2"), El("span")} : StartTag(e, MaxEventsSep, MaxDepthSep)
    \/ \E d \in {<<"a">>, <<" ">>, <<" ", "a", " ">>} : Data(d, MaxEventsSep)
    \/ EndTag
    \/ Finish

SpecSep == InitSep /\ [][NextSep]_vars

\* Heading, table and other elements with text, the callback returning
\* objects without an id.
MaxEventsBad == 7

MaxDepthBad == 3

InitBad ==
    /\ trace = <<>>
    /\ stack = <<>>
    /\ pc = "walk"
    /\ parser = [NewParser(TRUE, 0, <<>>) EXCEPT !.bad_callback = TRUE]
    /\ twin = NoTwin
    /\ tree = <<>>

NextBad ==
    \/ \E e \in {El("p"), El("h1"), El("h2"), El("table"), El("tr"), El("td"),
                 Link(<<"x">>), Pagenum(<<"p", "1">>),
                 [tag |-> "span", attrs |-> [id |-> <<"i">>]]} :
          StartTag(e, MaxEventsBad, MaxDepthBad)
    \/ \E d \in {<<"a">>} : Data(d, MaxEventsBad)
    \/ EndTag
    \/ Finish

SpecBad == InitBad /\ [][NextBad]_vars

\* Page markers with any identifier of up to MaxLenId characters, among
\* text, with a callback.
MaxLenId == 2

IdChars == {"p", "P", "0", "7", "\n"}

PageIds == UNION {[1..n -> IdChars] : n \in 1..MaxLenId}

MaxEventsPid == 5

MaxDepthPid == 2

InitPid == InitWith({TRUE}, {0}, {<<>>})

NextPid ==
    \/ \E e \in {El("p")} \cup {Pagenum(id) : id \in PageIds} :
          StartTag(e, MaxEventsPid, MaxDepthPid)
    \/ \E d \in {<<"a">>} : Data(d, MaxEventsPid)
    \/ EndTag
    \/ Finish

SpecPid == InitPid /\ [][NextPid]_vars

\* Table-structural elements inside one another, among inline and ignored
\* elements and text, with a callback.
MaxEventsTable == 9

MaxDepthTable == 3

InitTable == InitWith({TRUE}, {0}, {<<>>})

NextTable ==
    \/ \E e \in {El("table"), El("tr"), El("td"), El("span"), El("script")} :
          StartTag(e, MaxEventsTable, MaxDepthTable)
    \/ \E d \in {<<"a">>} : Data(d, MaxEventsTable)
    \/ EndTag
    \/ Finish

SpecTable == InitTable /\ [][NextTable]_vars

\* Elements with and without an id attribute, ignored ones among them,
\* with a callback and a source path.
MaxEventsId == 7

MaxDepthId == 3

WithId(tag) == [tag |-> tag, attrs |-> [id |-> <<"i">>]]

InitId == InitWith({TRUE}, {0}, {<<>>, <<"f">>})

NextId ==
    \/ \E e \in {El("p"), El("script"), WithId("p"), WithId("span"), WithId("td"),
                 WithId("script"), Pagenum(<<"p", "1">>)} :
          StartTag(e, MaxEventsId, MaxDepthId)
    \/ \E d \in {<<"a">>} : Data(d, MaxEventsId)
    \/ EndTag
    \/ Finish

SpecId == InitId /\ [][NextId]_vars

\* Anchors whose href is made of up to MaxSegs segments, plain, dot,
\* dot-dot, percent-encoded dot-dot or empty, or holds a scheme separator; the
\* source path is empty, relative or absolute.  With a callback.
MaxSegs == 2

HrefSegments == {<<"x">>, <<".">>, <<".", ".">>, <<"%", "2", "E", "%", "2", "e">>, <<>>}

Hrefs == {JoinSlash(segs) : segs \in UNION {[1..n -> HrefSegments] : n \in 1..MaxSegs}}
           \cup {<<"h", ":", "/", "/", "x", "/", ".", ".", "/", "%", "7", "8">>}

Files == {<<>>, <<"d", "/", "c">>, <<"d", "/", "e", "/", "c">>, <<"/", "c">>}

MaxEventsHref == 4

MaxDepthHref == 2

InitHref == InitWith({TRUE}, {0}, Files)

NextHref ==
    \/ \E e \in {El("span")} \cup {Link(h) : h \in Hrefs} :
          StartTag(e, MaxEventsHref, MaxDepthHref)
    \/ \E d \in {<<"a">>} : Data(d, MaxEventsHref)
    \/ EndTag
    \/ Finish

SpecHref == InitHref /\ [][NextHref]_vars

\* Comments and processing instructions among block, inline, preformatted
\* and ignored elements and padded texts, with and without a callback.
MaxEventsComment == 7

MaxDepthComment == 2

InitComment == InitWith({TRUE, FALSE}, {0}, {<<>>})

NextComment ==
    \/ \E e \in {El("p"), El("h1"), El("pre"), El("script")} :
          StartTag(e, MaxEventsComment, MaxDepthComment)
    \/ \E d \in {<<"a">>, <<" ", "b", " ">>} : Data(d, MaxEventsComment)
    \/ EndTag
    \/ \E c \in {CommentOf(<<"c">>), PIOf(<<"c">>)} : Comment(c, MaxEventsComment)
    \/ Finish

SpecComment == InitComment /\ [][NextComment]_vars

\* Line breaks among block, inline and ignored elements and padded texts.
MaxEventsBr == 10

MaxDepthBr == 2

InitBr == InitWith({FALSE}, {0}, {<<>>})

NextBr ==
    \/ \E e \in {El("p"), El("br"), El("script")} : StartTag(e, MaxEventsBr, MaxDepthBr)
    \/ \E d \in {<<"a">>, <<" ", "b", " ">>} : Data(d, MaxEventsBr)
    \/ EndTag
    \/ Finish

SpecBr == InitBr /\ [][NextBr]_vars

\* Rules among block, inline and ignored elements and padded texts.
MaxEventsHr == 8

MaxDepthHr == 2

InitHr == InitWith({FALSE}, {0}, {<<>>})

NextHr ==
    \/ \E e \in {El("p"), El("hr"), El("span"), El("script")} :
          StartTag(e, MaxEventsHr, MaxDepthHr)
    \/ \E d \in {<<"a">>, <<"a", " ">>, <<" ", "b", " ">>} : Data(d, MaxEventsHr)
    \/ EndTag
    \/ Finish

SpecHr == InitHr /\ [][NextHr]_vars

\* Definition list items among block, inline, rule, line break and ignored
\* elements and padded texts.
MaxEventsDd == 7

MaxDepthDd == 2

InitDd == InitWith({FALSE}, {0}, {<<>>})

NextDd ==
    \/ \E e \in {El("dd"), El("dt"), El("p"), El("span"), El("hr"), El("br"), El("script")} :
          StartTag(e, MaxEventsDd, MaxDepthDd)
    \/ \E d \in {<<"a">>, <<" ", "b", " ">>} : Data(d, MaxEventsDd)
    \/ EndTag
    \/ Finish

SpecDd == InitDd /\ [][NextDd]_vars

\* Ignored elements inside and outside preformatted and block elements,
\* with line breaks, rules and texts.
MaxEventsIgn == 8

MaxDepthIgn == 3

InitIgn == InitWith({FALSE}, {0}, {<<>>})

NextIgn ==
    \/ \E e \in {El("pre"), El("p"), El("br"), El("hr"), El("script"),
                 Pagenum(<<"p", "1">>)} :
          StartTag(e, MaxEventsIgn, MaxDepthIgn)
    \/ \E d \in {<<"a">>, <<" ", "\n", "b">>} : Data(d, MaxEventsIgn)
    \/ EndTag
    \/ Finish

SpecIgn == InitIgn /\ [][NextIgn]_vars

\* Normal mode only: line breaks among block and inline elements and texts
\* with whitespace before and after the words.
MaxEventsNl == 8

MaxDepthNl == 2

InitNl == InitWith({FALSE}, {0}, {<<>>})

NextNl ==
    \/ \E e \in {El("p"), El("br"), El("span")} : StartTag(e, MaxEventsNl, MaxDepthNl)
    \/ \E d \in {<<"a">>, <<"a", " ">>, <<" ", "a">>, <<" ">>} : Data(d, MaxEventsNl)
    \/ EndTag
    \/ Finish

SpecNl == InitNl /\ [][NextNl]_vars

\* Headings after texts and blocks, holding inline text, preformatted
\* elements and definition list items.  With a callback.
MaxEventsHStart == 8

MaxDepthHStart == 3

InitHStart == InitWith({TRUE}, {0}, {<<>>})

NextHStart ==
    \/ \E e \in {El("h1"), El("p"), El("span"), El("pre"), El("dd")} :
          StartTag(e, MaxEventsHStart, MaxDepthHStart)
    \/ \E d \in {<<"a">>, <<" ", "a", " ">>} : Data(d, MaxEventsHStart)
    \/ EndTag
    \/ Finish

SpecHStart == InitHStart /\ [][NextHStart]_vars

\* Every kind of element that queues a separator, and inline elements,
\* around padded texts.
MaxEventsOver == 8

MaxDepthOver == 2

InitOver == InitWith({FALSE}, {0}, {<<>>})

NextOver ==
    \/ \E e \in {El("p"), El("h1"), El("pre"), El("dd"), El("span")} :
          StartTag(e, MaxEventsOver, MaxDepthOver)
    \/ \E d \in {<<"a">>, <<" ", "a", " ">>} : Data(d, MaxEventsOver)
    \/ EndTag
    \/ Finish

SpecOver == InitOver /\ [][NextOver]_vars

\* ------------------------------------------------------------ document shapes

\* An element whose content the parser is to ignore.
IsIgnoredEl(e) == e.tag \in _ignored \/ AttrIs(e.attrs, "class", "pagenum")

\* The indices of the start events of the trace.
Starts == {i \in 1..Len(trace) : trace[i].ev = "start"}

\* The document has no ignored element.
NothingIgnored == \A i \in Starts : ~IsIgnoredEl(ElementAt(i))

\* The returned text, once html_to_text has returned.
Returned == pc = "done"

\* ------------------------------------------------------------ C1

\* C1: ignoring suppresses everything: while an ignored element (script,
\* style, title, class=pagenum) is open no character is appended to the
\* output, and the conversion of a script element returns the empty string
\* whatever its subtree holds.
C1_IgnoringSuppressesEverything ==
    /\ \A k \in 1..Len(stack) :
          IsIgnoredEl(ElementAt(stack[k])) => tell(parser) = trace[stack[k]].pos
    /\ (Returned /\ trace[1].tag = "script") => parser.output = <<>>

\* ------------------------------------------------------------ C2

\* The document is one element, of one of the given tags, without children.
SingleElement(tags) ==
    /\ Len(trace) \in {2, 3}
    /\ trace[1].tag \in tags
    /\ trace[Len(trace)].ev = "end"
    /\ Len(trace) = 3 => trace[2].ev = "data"

\* C2: pre-mode fidelity: the conversion of a single pre or code element
\* without children whose text is S returns a newline followed by S
\* unchanged, and the empty string when the element has no text.
C2_PreFidelity ==
    (Returned /\ SingleElement(_pre_tags)) =>
        parser.output = (IF Len(trace) = 3 THEN NL \o trace[2].data ELSE <<>>)

\* A pre or code element whose text has a run of whitespace and whitespace
\* at both ends has been converted.
C2_Witness ==
    /\ Returned /\ SingleElement(_pre_tags)
    /\ Len(trace) = 3
    /\ trace[2].data = <<" ", "\n", " ">>
    /\ Len(parser.output) = 4

\* ------------------------------------------------------------ C3

\* C3: nested pre/code tags do not toggle pre mode twice: while a pre or
\* code element is open and nothing is ignored the parser is in pre mode,
\* also after an inner pre/code element has closed, and the text of a
\* pre/code element nested directly in another follows a single newline.
C3_NestedPreStaysPre ==
    /\ (/\ pc = "walk"
        /\ NothingIgnored
        /\ \E k \in 1..Len(stack) : trace[stack[k]].tag \in _pre_tags)
           => is_in_pre_mode(parser)
    /\ (/\ Len(trace) = 3
        /\ trace[1].tag \in _pre_tags /\ trace[2].ev = "start"
        /\ trace[2].tag \in _pre_tags /\ trace[3].ev = "data")
           => parser.output = NL \o trace[3].data

\* ------------------------------------------------------------ C4, C5

\* The heading events, in the order the callback got them.
HeadingEvents == SelectSeq(parser.nodes, LAMBDA n : n.type = "heading")

\* The level a heading event reports.
LevelOf(n) == heading_levels[n.tag]

\* Every heading element of the document is outside ignored content and
\* outside every other heading element.
PlainHeadings ==
    \A i \in Starts : trace[i].tag \in _heading_tags =>
        \A k \in 1..Len(trace[i].anc) :
            /\ trace[trace[i].anc[k]].tag \notin _heading_tags
            /\ ~IsIgnoredEl(ElementAt(trace[i].anc[k]))

\* The greatest element of a non-empty set of numbers.
Greatest(S) == CHOOSE x \in S : \A y \in S : y <= x

\* C4 as stated: the parent of heading event i is the id of the nearest
\* preceding event j of a smaller level with no event of a level smaller
\* than or equal to that of i in between; none when there is no such j.
C4_ParentAsStated ==
    PlainHeadings =>
      LET H == HeadingEvents
      IN \A i \in 1..Len(H) :
            LET J == {j \in 1..(i - 1) :
                        /\ LevelOf(H[j]) < LevelOf(H[i])
                        /\ \A k \in (j + 1)..(i - 1) : ~(LevelOf(H[k]) <= LevelOf(H[i]))}
            IN H[i].parent = IF J = {} THEN None ELSE H[Greatest(J)].id

\* C4 amended: the parent of heading event i is the id of the nearest
\* preceding event j of a smaller level with no event of a smaller level
\* than that of i in between (events of the level of i in between do not
\* hide j); none when there is no such j.
C4_ParentNearestShallower ==
    PlainHeadings =>
      LET H == HeadingEvents
      IN \A i \in 1..Len(H) :
            LET J == {j \in 1..(i - 1) :
                        /\ LevelOf(H[j]) < LevelOf(H[i])
                        /\ \A k \in (j + 1)..(i - 1) : ~(LevelOf(H[k]) < LevelOf(H[i]))}
            IN H[i].parent = IF J = {} THEN None ELSE H[Greatest(J)].id

\* A heading has got as its parent a shallower heading across a heading of
\* its own level: h1, h2, h2 or the like.
C4_Witness ==
    /\ PlainHeadings
    /\ Len(HeadingEvents) >= 3
    /\ LevelOf(HeadingEvents[1]) < LevelOf(HeadingEvents[2])
    /\ LevelOf(HeadingEvents[2]) = LevelOf(HeadingEvents[3])
    /\ HeadingEvents[3].parent = HeadingEvents[1].id

RECURSIVE ShallowerBefore(_, _, _)
\* The id of the last of the first j events of H whose level is smaller
\* than level; None when there is none.
ShallowerBefore(H, j, level) ==
    IF j = 0 THEN None
    ELSE IF LevelOf(H[j]) < level THEN H[j].id
    ELSE ShallowerBefore(H, j - 1, level)

\* C5: for headings that are not nested and not in ignored content, the
\* parent of each heading event is the id of the most recent preceding
\* heading of a strictly smaller level, none when there is none: a heading
\* of the level of its predecessor shares the predecessor's parent, and a
\* parent is never a heading of the same or a greater level.
C5_ParentMostRecentShallower ==
    PlainHeadings =>
      LET H == HeadingEvents
      IN \A i \in 1..Len(H) :
            /\ H[i].parent = ShallowerBefore(H, i - 1, LevelOf(H[i]))
            /\ (i > 1 /\ LevelOf(H[i - 1]) = LevelOf(H[i])) => H[i].parent = H[i - 1].parent
            /\ \A j \in 1..Len(H) :
                  H[i].parent = H[j].id => LevelOf(H[j]) < LevelOf(H[i])

\* A heading that skips a level (h1 then h3) is followed by a shallower one
\* and by one that attaches to the first: h1, h3, h2, h3.
C5_Witness ==
    /\ PlainHeadings
    /\ Len(HeadingEvents) = 4
    /\ LevelOf(HeadingEvents[1]) + 1 < LevelOf(HeadingEvents[2])
    /\ HeadingEvents[2].parent = HeadingEvents[1].id
    /\ HeadingEvents[3].parent = HeadingEvents[1].id
    /\ HeadingEvents[4].parent = HeadingEvents[3].id

\* ------------------------------------------------------------ C6

\* The events that carry a start and an end once their element has closed.
HasStartAndEnd(n) == n.type \in {"heading", "link"} \cup _table_tags

\* C6: offset consistency: with base offset 0, every heading, link and
\* table-tag event that has got its end satisfies
\* 0 <= start <= end <= length of the returned text.
C6_OffsetsConsistent ==
    (Returned /\ parser.startpos = 0) =>
        \A i \in 1..Len(parser.nodes) :
            LET n == parser.nodes[i]
            IN (HasStartAndEnd(n) /\ n.end # None) =>
                  /\ 0 <= n.start
                  /\ n.start <= n.end
                  /\ n.end <= Len(parser.output)

\* ------------------------------------------------------------ C7

\* The indices of the end events of the anchors with an href, in order: the
\* k-th of them emitted the k-th link event.
LinkEnds == SelectSeq([i \in 1..Len(trace) |-> i],
                      LAMBDA i : /\ trace[i].ev = "end"
                                 /\ trace[i].tag = "a"
                                 /\ "href" \in DOMAIN trace[i].attrs)

LinkEvents == SelectSeq(parser.nodes, LAMBDA n : n.type = "link")

\* The anchor closed by event i holds one text without boundary whitespace
\* and nothing else.
PlainAnchor(i) ==
    /\ i = trace[i].at + 2
    /\ trace[i - 1].ev = "data"
    /\ trace[i - 1].data[1] \notin Whitespace
    /\ trace[i - 1].data[Len(trace[i - 1].data)] \notin Whitespace

\* text[start:end]
Slice(text, start, end) == SubSeq(text, start + 1, end)

\* C7: for every anchor with an href whose content is plain text without
\* nested markup and without boundary whitespace, the slice
\* returned_text[start:end] of its link event is the link's name.
C7_LinkSliceIsName ==
    (Returned /\ parser.startpos = 0 /\ Len(LinkEvents) = Len(LinkEnds)) =>
        \A k \in 1..Len(LinkEnds) :
            PlainAnchor(LinkEnds[k]) =>
                Slice(parser.output, LinkEvents[k].start, LinkEvents[k].end) = LinkEvents[k].name

\* ------------------------------------------------------------ C8

\* The position q is the position r of the conversion at base offset 0,
\* shifted by k; a missing end is missing in both.
Shifted(q, r, k) == IF r = None THEN q = None ELSE q = r + k

\* C8: the conversion with base offset k returns the text of the conversion
\* with base offset 0 and reports every start and every end shifted by k,
\* the end of the last page marker included.
C8_PositionsShiftWithBase ==
    (Returned /\ twin.on /\ twin.p.startpos = 0) =>
        /\ parser.output = twin.p.output
        /\ Len(parser.nodes) = Len(twin.p.nodes)
        /\ \A i \in 1..Len(parser.nodes) :
              /\ Shifted(parser.nodes[i].start, twin.p.nodes[i].start, parser.startpos)
              /\ Shifted(parser.nodes[i].end, twin.p.nodes[i].end, parser.startpos)

\* ------------------------------------------------------------ C9

PageEvents == SelectSeq(parser.nodes, LAMBDA n : n.type = "page")

\* C9: page markers are closed in sequence: at most one page marker is
\* without an end, each page marker but the last has as its end the start
\* of the next one, and once the conversion has returned every page marker
\* has an end, the last one's being the final write cursor, base offset +
\* length of the returned text.
C9_PagesClosedInSequence ==
    LET P == PageEvents
    IN /\ Cardinality({i \in 1..Len(P) : P[i].end = None}) <= 1
       /\ \A i \in 1..(Len(P) - 1) : P[i].end = P[i + 1].start
       /\ (Returned /\ Len(P) > 0) =>
              P[Len(P)].end = parser.startpos + Len(parser.output)

\* What C9 says of a conversion at base offset 0.
C9_AtBaseZero == parser.startpos = 0 => C9_PagesClosedInSequence

\* ------------------------------------------------------------ C10

\* The data events of the trace hold whitespace at the start of one text
\* and at the end of one.
PaddedText ==
    /\ \E i \in 1..Len(trace) : trace[i].ev = "data" /\ trace[i].data[1] \in Whitespace
    /\ \E i \in 1..Len(trace) :
          trace[i].ev = "data" /\ trace[i].data[Len(trace[i].data)] \in Whitespace

\* The document is made of block and inline elements and text only.
BlockAndInlineOnly ==
    \A i \in Starts : trace[i].tag \in _block \cup {"span"} /\ trace[i].attrs = NoAttrs

\* C10: boundary trimming: the text returned for a block or inline element
\* holding normal text has no leading space, no trailing space and no
\* leading separator, whatever the padding of its texts.
C10_BoundaryTrimming ==
    (Returned /\ BlockAndInlineOnly /\ parser.output # <<>>) =>
        /\ parser.output[1] \notin Whitespace
        /\ parser.output[Len(parser.output)] # " "

\* A block element whose descendants hold text padded at both ends has been
\* converted and has returned text.
C10_Witness ==
    /\ Returned /\ BlockAndInlineOnly
    /\ trace[1].tag \in _block
    /\ Len(stack) = 0 /\ \E i \in Starts : Len(trace[i].anc) = 2
    /\ PaddedText
    /\ Len(parser.output) >= 3

\* ------------------------------------------------------------ C11

\* All of the text is whitespace.
AllWhitespace(d) == \A k \in 1..Len(d) : d[k] \in Whitespace

\* Event i opens a block or heading element, not the root, that is empty
\* or holds whitespace only, and the element has closed.
EmptyBlockOrHeading(i) ==
    /\ i > 1
    /\ trace[i].ev = "start"
    /\ trace[i].tag \in _block \cup _heading_tags
    /\ \/ EndOf(i) = i + 1
       \/ EndOf(i) = i + 2 /\ trace[i + 1].ev = "data" /\ AllWhitespace(trace[i + 1].data)

\* The text returned for the document without the element opened by event i.
TextWithout(i) ==
    html_to_text(Without(trace, i, EndOf(i)), parser.node_parsed_callback,
                 parser.startpos, parser.file).output

\* C11: separator suppression for empty elements: an empty or
\* whitespace-only block or heading element contributes no separator to
\* its surrounding siblings: the returned text is the text returned for the
\* document without that element, at the document start and between two
\* pieces of inline text alike.
C11_EmptyElementAddsNothing ==
    Returned =>
        \A i \in 1..Len(trace) :
            EmptyBlockOrHeading(i) => parser.output = TextWithout(i)

\* What C11 says of an empty element reached before anything is written.
C11_AtDocumentStart ==
    Returned =>
        \A i \in 1..Len(trace) :
            (EmptyBlockOrHeading(i) /\ trace[i].pos = 0) => parser.output = TextWithout(i)

\* The walk, event by event, and parse_tag over the whole tree agree.
WalkIsParseTag ==
    Returned =>
        parser = html_to_text(trace, parser.node_parsed_callback, parser.startpos, parser.file)

\* ------------------------------------------------------------ C12

\* C12: no duplicate spaces: whatever the sequence of normal-mode text
\* fragments and inline element boundaries (a fragment ending in whitespace
\* followed by one starting with whitespace or by a whitespace-only one
\* included), the written text never holds two adjacent space characters.
C12_NoDuplicateSpaces ==
    \A k \in 1..(Len(parser.output) - 1) :
        ~(parser.output[k] = " " /\ parser.output[k + 1] = " ")

\* ------------------------------------------------------------ C13

\* The indices of the data events of the trace.
Datas == {i \in 1..Len(trace) : trace[i].ev = "data"}

\* The text is normalized: not empty, its only whitespace single spaces
\* between other characters.
Normalized(d) ==
    /\ d # <<>>
    /\ d[1] \notin Whitespace /\ d[Len(d)] \notin Whitespace
    /\ \A k \in 1..Len(d) : d[k] \in Whitespace =>
          d[k] = " " /\ d[k + 1] \notin Whitespace

\* The document is made of block, heading and inline elements around one
\* text.
OnlyText ==
    /\ \A i \in Starts : trace[i].tag \in _block \cup _heading_tags \cup {"span"}
    /\ Cardinality(Datas) = 1

\* The text returned for the document with t as its only text.
TextWith(t) ==
    LET i == CHOOSE k \in Datas : TRUE
    IN html_to_text([trace EXCEPT ![i].data = t], parser.node_parsed_callback,
                    parser.startpos, parser.file).output

\* C13: idempotent whitespace collapsing: the conversion of a document
\* whose only text is a normalized string returns that string unchanged,
\* and the conversion of the text returned for any only text returns it
\* again.
C13_NormalizedIsFixpoint ==
    (Returned /\ OnlyText) =>
        LET S == trace[CHOOSE k \in Datas : TRUE].data
        IN /\ Normalized(S) => parser.output = S
           /\ parser.output # <<>> => TextWith(parser.output) = parser.output

\* A normalized string with an internal space has been converted as the
\* only text of a document.
C13_Witness ==
    /\ Returned /\ OnlyText
    /\ trace[CHOOSE k \in Datas : TRUE].data = <<"a", " ", "a">>
    /\ parser.output = <<"a", " ", "a">>

\* ------------------------------------------------------------ C14

\* The document is made of block, heading and inline elements and text.
NormalModeOnly ==
    \A i \in Starts : /\ trace[i].tag \in _block \cup _heading_tags \cup {"span"}
                      /\ trace[i].attrs = NoAttrs

\* Events i < j are texts with something to write, and between them are
\* open and close tags of block and heading elements only, one at least.
AcrossBlockBoundaries(i, j) ==
    /\ i + 1 < j
    /\ trace[i].ev = "data" /\ ~AllWhitespace(trace[i].data)
    /\ trace[j].ev = "data" /\ ~AllWhitespace(trace[j].data)
    /\ \A k \in (i + 1)..(j - 1) :
          trace[k].ev \in {"start", "end"} /\ trace[k].tag \in _block \cup _heading_tags

\* What the handling of event j appended to the output.
WrittenBy(j) ==
    SubSeq(parser.output, trace[j].pos + 1,
           IF j < Len(trace) THEN trace[j + 1].pos ELSE Len(parser.output))

\* C14: between two non-empty normal-mode texts separated only by block and
\* heading tag boundaries, however many and however nested, exactly one
\* "\n\n" is written: the second text is written as two newlines and its
\* first word, right after the last word of the first text.
C14_OneSeparator ==
    (pc # "raised" /\ NormalModeOnly) =>
        \A i, j \in 1..Len(trace) :
            (AcrossBlockBoundaries(i, j) /\ (j < Len(trace) \/ pc = "done")) =>
                LET w == WrittenBy(j)
                IN /\ Len(w) >= 3
                   /\ SubSeq(w, 1, 2) = <<"\n", "\n">>
                   /\ w[3] \notin Whitespace
                   /\ parser.output[trace[j].pos] \notin Whitespace

\* Two padded texts with three tag boundaries between them, the open and
\* the close of an empty heading and the open of a block, have been
\* converted.
C14_Witness ==
    /\ Returned /\ NormalModeOnly
    /\ \E i \in 1..(Len(trace) - 4) :
          /\ AcrossBlockBoundaries(i, i + 4)
          /\ trace[i].data = <<" ", "a", " ">> /\ trace[i + 4].data = <<" ", "a", " ">>
          /\ trace[i + 1].ev = "start" /\ trace[i + 1].tag \in _heading_tags
          /\ trace[i + 2].ev = "end"
          /\ trace[i + 3].ev = "start" /\ trace[i + 3].tag \in _block

\* ------------------------------------------------------------ C15

\* A heading element outside ignored content has closed: its heading event
\* has been emitted and its id is needed for the heading stack.
HeadingClosed ==
    \E j \in 1..Len(trace) :
        /\ trace[j].ev = "end" /\ trace[j].tag \in _heading_tags
        /\ \A k \in 1..Len(trace[j].anc) : ~IsIgnoredEl(ElementAt(trace[j].anc[k]))

\* A table-structural element has opened inside another, outside ignored
\* content: the id of the outer one's event is needed as the parent.
TableChildOpened ==
    \E j \in Starts :
        /\ trace[j].tag \in _table_tags
        /\ \E k \in 1..Len(trace[j].anc) : trace[trace[j].anc[k]].tag \in _table_tags
        /\ \A k \in 1..Len(trace[j].anc) : ~IsIgnoredEl(ElementAt(trace[j].anc[k]))

\* No heading and no table-structural element of the document is inside
\* ignored content.
StackedOutsideIgnored ==
    \A i \in Starts : trace[i].tag \in _heading_tags \cup _table_tags =>
        \A k \in 1..Len(trace[i].anc) : ~IsIgnoredEl(ElementAt(trace[i].anc[k]))

\* C15: a callback whose returned object lacks an id aborts the conversion
\* where the id is needed for stacking, at the close of a heading and at
\* the open of a table-structural element inside another: the error ends
\* the walk, it is not swallowed and no text is returned.
C15_MissingIdAborts ==
    (parser.bad_callback /\ StackedOutsideIgnored /\ (HeadingClosed \/ TableChildOpened)) =>
        /\ pc = "raised"
        /\ parser.raised = "KeyError"

\* A conversion that had written text has been aborted at the open of a
\* table-structural element inside another.
C15_Witness ==
    /\ parser.bad_callback /\ StackedOutsideIgnored
    /\ pc = "raised"
    /\ TableChildOpened /\ ~HeadingClosed
    /\ parser.output # <<>>

\* ------------------------------------------------------------ C16, C17

\* The indices of the end events of the page markers, in order: the k-th of
\* them emitted the k-th page event.
PageEnds == SelectSeq([i \in 1..Len(trace) |-> i],
                      LAMBDA i : /\ trace[i].ev = "end"
                                 /\ AttrIs(trace[i].attrs, "class", "pagenum"))

\* No page marker of the document is inside ignored content.
PlainPages ==
    \A i \in Starts : IsIgnoredEl(ElementAt(i)) =>
        \A k \in 1..Len(trace[i].anc) : ~IsIgnoredEl(ElementAt(trace[i].anc[k]))

\* The identifier ends in a run of digits.
EndsInDigits(num) == num # <<>> /\ num[Len(num)] \in Digits

\* The page number of an identifier as C17 states it.
StatedPagenum(num) ==
    IF EndsInDigits(num) THEN StripZeros(TrailingDigits(num))
    ELSE IF num # <<>> /\ num[1] = "p"
         THEN [i \in 1..(Len(num) - 1) |-> lower(num[i + 1])]
         ELSE NoneStr

\* The events of the trace with the identifier of every page marker
\* replaced by id.
WithPageIds(id) ==
    [i \in 1..Len(trace) |->
        IF AttrIs(trace[i].attrs, "class", "pagenum")
        THEN [trace[i] EXCEPT !.attrs.id = id] ELSE trace[i]]

\* C16 for the identifiers of the given set: the page marker of an
\* identifier without a page number does not end the conversion, its page
\* event is emitted with pagenum None, it is the open marker once it has
\* closed, and the text returned is the text returned with a parseable
\* identifier in its place.
UnparseableIsNonFatal(ids) ==
    (PlainPages /\ \A k \in 1..Len(PageEnds) : trace[PageEnds[k]].attrs.id \in ids) =>
        /\ pc # "raised"
        /\ Len(PageEvents) = Len(PageEnds)
        /\ \A k \in 1..Len(PageEnds) :
              LET id == trace[PageEnds[k]].attrs.id
              IN /\ PageEvents[k].name = id
                 /\ StatedPagenum(id) = NoneStr => PageEvents[k].pagenum = NoneStr
        /\ (PageEnds # <<>> /\ PageEnds[Len(PageEnds)] = Len(trace)) =>
              /\ parser.last_page = Len(parser.nodes)
              /\ parser.nodes[parser.last_page].type = "page"
        /\ Returned =>
              parser.output = html_to_text(WithPageIds(<<"7">>), TRUE, parser.startpos,
                                           parser.file).output

\* C16: an unparseable page-number identifier is non-fatal: the page event
\* is still emitted with pagenum None, the marker is tracked as the open
\* marker, and the conversion continues and returns the text it returns
\* for a parseable identifier.
C16_UnparseableIsNonFatal == UnparseableIsNonFatal(PageIds)

\* What C16 says of the identifiers that do not end in a newline.
C16_WithoutFinalNewline ==
    UnparseableIsNonFatal({id \in PageIds : id[Len(id)] # "\n"})

\* C17: page-number parsing: the page number of an identifier that ends in
\* a run of digits is that run without its leading zeros, also when the
\* identifier starts with p; otherwise that of an identifier that starts
\* with p is the rest of it, lower-cased; otherwise there is none.
C17_PagenumAsStated ==
    (PlainPages /\ Len(PageEvents) = Len(PageEnds)) =>
        \A k \in 1..Len(PageEnds) :
            PageEvents[k].pagenum = StatedPagenum(trace[PageEnds[k]].attrs.id)

\* What C17 says of the identifiers that do not end in a newline.
C17_WithoutFinalNewline ==
    (PlainPages /\ Len(PageEvents) = Len(PageEnds)) =>
        \A k \in 1..Len(PageEnds) :
            LET id == trace[PageEnds[k]].attrs.id
            IN id[Len(id)] # "\n" => PageEvents[k].pagenum = StatedPagenum(id)

\* ------------------------------------------------------------ C18

\* The table-structural tags, as C18 lists them.
TableStructural == {"table", "thead", "tbody", "tfoot", "tr", "th", "td"}

\* The indices of the start events of the table-structural elements, in
\* order.
TableStarts == SelectSeq([i \in 1..Len(trace) |-> i],
                         LAMBDA i : trace[i].ev = "start" /\ trace[i].tag \in TableStructural)

\* The table-tag events, in the order the callback got them.
TableEvents == SelectSeq(parser.nodes, LAMBDA n : n.type \in TableStructural)

\* No table-structural element of the document is inside ignored content.
PlainTables ==
    \A i \in Starts : trace[i].tag \in TableStructural =>
        \A k \in 1..Len(trace[i].anc) : ~IsIgnoredEl(ElementAt(trace[i].anc[k]))

\* The positions k of TableStarts whose element encloses the element opened
\* by event i.
EnclosingTables(i) ==
    {k \in 1..Len(TableStarts) : \E a \in 1..Len(trace[i].anc) : trace[i].anc[a] = TableStarts[k]}

IdStarts(kind(_)) ==
    SelectSeq([i \in 1..Len(trace) |-> i],
              LAMBDA i : /\ trace[i].ev = "start"
                         /\ "id" \in DOMAIN trace[i].attrs
                         /\ ~trace[i].ignoring
                         /\ kind(ElementAt(i)))

\* The id events, in the order the callback got them.
IdEvents == SelectSeq(parser.nodes, LAMBDA n : n.type = "id")

\* C19 for the elements of the given kind: the k-th of them that carries an
\* id and is reached while not ignoring emits the k-th id event, at its
\* open tag, with parent None, name file + "#" + id, start the position
\* plus the length of the pending separator, and no end; nothing else emits
\* an id event.
IdEventsFor(kind(_)) ==
    pc # "raised" =>
        LET S == IdStarts(kind)
        IN /\ Len(IdEvents) = Len(S)
           /\ \A k \in 1..Len(S) :
                 LET n == IdEvents[k]
                 IN /\ n.parent = None
                    /\ n.name = parser.file \o <<"#">> \o trace[S[k]].attrs.id
                    /\ n.end = None
                    /\ n.start >= trace[S[k]].pos + parser.startpos
                    /\ S[k] = Len(trace) =>
                          /\ n = parser.nodes[IF trace[S[k]].tag \in _table_tags
                                              THEN Len(parser.nodes) - 1
                                              ELSE Len(parser.nodes)]
                          /\ n.start = tell(parser) + parser.startpos + Len(parser.add)

AnyElement(e) == TRUE

NotIgnoredEl(e) == ~IsIgnoredEl(e)

\* C19: with a callback, every element that carries an id attribute and
\* whose open tag is reached while not ignoring emits exactly one id event
\* at its open tag, with parent None, name = file path + "#" + id, start =
\* position + length of the pending separator, and no end; elements without
\* an id emit no id event.
C19_IdEvents == IdEventsFor(AnyElement)

\* What C19 says when the elements that are themselves ignored (script,
\* style, title, class=pagenum) are left out of the elements that emit.
C19_OutsideIgnoredElements == IdEventsFor(NotIgnoredEl)

\* ------------------------------------------------------------ C20

\* The segments of a path: what stands between its slashes.
Segs(path) == Split(path, <<>>)

\* All but the last element of a sequence.
Front(q) == SubSeq(q, 1, Len(q) - 1)

RECURSIVE StatedDecode(_)
\* The href with its escapes %2E and %2e (.) decoded.
StatedDecode(h) ==
    IF Len(h) < 3 THEN h
    ELSE IF SubSeq(h, 1, 3) \in {<<"%", "2", "E">>, <<"%", "2", "e">>}
         THEN <<".">> \o StatedDecode(SubSeq(h, 4, Len(h)))
    ELSE <<h[1]>> \o StatedDecode(Tail(h))

\* A segment that names something: not empty, not "." and not "..".
PlainSeg(seg) == seg # <<>> /\ seg # <<".">> /\ seg # <<".", ".">>

AllPlain(segs) == \A k \in 1..Len(segs) : PlainSeg(segs[k])

RECURSIVE StripSlashes(_)
StripSlashes(path) ==
    IF path # <<>> /\ path[1] = "/" THEN StripSlashes(Tail(path)) ELSE path

\* The path is lexically normal: no empty and no "." segment, and ".."
\* segments only at the start of a relative path.
LexicallyNormal(path) ==
    /\ path # <<>>
    /\ LET body == Segs(StripSlashes(path))
       IN \/ path = <<".">>
          \/ StripSlashes(path) = <<>>
          \/ /\ \A k \in 1..Len(body) : body[k] # <<>> /\ body[k] # <<".">>
             /\ \A k \in 2..Len(body) :
                   body[k] = <<".", ".">> => body[k - 1] = <<".", ".">>
             /\ path[1] = "/" => body[1] # <<".", ".">>

\* What C20 says of the href r passed for an anchor of href h in a document
\* of source path f.
StatedResolution(f, h, r) ==
    IF HasSub(h, <<":", "/", "/">>) THEN r = h
    ELSE LET segs == Segs(StatedDecode(h))
             dir == Front(Segs(f))
         IN /\ LexicallyNormal(r)
            /\ (AllPlain(dir) /\ AllPlain(segs)) => r = JoinSlash(dir \o segs)
            /\ (AllPlain(dir) /\ dir # <<>> /\ Len(segs) > 1
                  /\ segs[1] = <<".", ".">> /\ AllPlain(Tail(segs)))
                  => r = JoinSlash(Front(dir) \o Tail(segs))
            /\ (AllPlain(dir) /\ Len(segs) > 1
                  /\ segs[1] = <<".">> /\ AllPlain(Tail(segs)))
                  => r = JoinSlash(dir \o Tail(segs))

\* C20: link href resolution: an href that holds "://" is passed to the
\* callback unchanged; any other href is percent-decoded, joined to the
\* directory of the source path and lexically normalized, "." and ".."
\* segments collapsed: "../x" in "d/c" gives "x".
C20_HrefResolution ==
    Len(LinkEvents) = Len(LinkEnds)
    /\ \A k \in 1..Len(LinkEnds) :
          StatedResolution(parser.file, trace[LinkEnds[k]].attrs.href, LinkEvents[k].href)

\* An anchor of href "../x", percent-encoded, in the document "d/c" has
\* been resolved to "x", and one whose href holds a scheme separator has
\* been passed unchanged.
C20_Witness ==
    /\ Returned
    /\ parser.file = <<"d", "/", "c">>
    /\ Len(LinkEvents) = 2
    /\ trace[LinkEnds[1]].attrs.href = <<"%", "2", "E", "%", "2", "e", "/", "x">>
    /\ LinkEvents[1].href = <<"x">>
    /\ HasSub(trace[LinkEnds[2]].attrs.href, <<":", "/", "/">>)
    /\ LinkEvents[2].href = trace[LinkEnds[2]].attrs.href

\* ------------------------------------------------------------ C21

\* The events of the walk that are not comments or processing
\* instructions, in order: the tail of a comment is a data event of its own.
RECURSIVE NoComments(_)
NoComments(evs) ==
    IF evs = <<>> THEN <<>>
    ELSE (IF evs[1].ev = "comment" THEN <<>> ELSE <<evs[1]>>) \o NoComments(Tail(evs))

\* C21: comments and processing instructions never trigger start-tag or
\* end-tag handling and their content is never written, and the tail text
\* after each of them goes through the same data handling as any other
\* text, in document order: at every point of the walk the parser is in the
\* state the same sequence of start tags, texts and end tags without the
\* comments leaves it in, and no character of a comment is in the output.
C21_CommentsAreSkipped ==
    pc # "raised" =>
        /\ LET p == parse_tag(NewParser(parser.node_parsed_callback, parser.startpos,
                                        parser.file), NoComments(trace), 1, <<>>)
           IN parser = IF pc = "done" THEN CloseLastPage(p) ELSE p
        /\ \A k \in 1..Len(parser.output) : parser.output[k] # "c"
        /\ \A k \in 1..Len(trace) :
              (trace[k].ev = "comment" /\ k < Len(trace)) => trace[k + 1].pos = trace[k].pos

\* A text, a comment and the tail of the comment, and later a processing
\* instruction and its tail, have been converted: both tails are in the
\* returned text.
C21_Witness ==
    /\ Returned
    /\ \E k, m \in 2..(Len(trace) - 1) :
          /\ trace[k].ev = "comment" /\ trace[k].tag = "Comment"
          /\ trace[k - 1].ev = "data" /\ trace[k + 1].ev = "data"
          /\ trace[m].ev = "comment" /\ trace[m].tag = "PI"
          /\ trace[m + 1].ev = "data"
          /\ trace[k + 1].pos < trace[m + 1].pos
          /\ trace[m + 1].pos < Len(parser.output)

\* ------------------------------------------------------------ C22

\* The step is the close of an element with this tag, reached while the
\* parser is not ignoring.
ClosesOutsideIgnored(tag) ==
    /\ pc = "walk" /\ stack # <<>>
    /\ Len(stack') < Len(stack)
    /\ trace[stack[Len(stack)]].tag = tag
    /\ ~is_ignoring(parser)

\* The close of a br element outside ignored content appends "\n" to the
\* output and leaves the pending separator and the owed spaces as they were.
BrWritesAtOnce ==
    ClosesOutsideIgnored("br") =>
        /\ parser'.output = parser.output \o <<"\n">>
        /\ parser'.add = parser.add
        /\ parser'.final_space = parser.final_space
        /\ parser'.initial_space = parser.initial_space

\* A block close, a br and a block open between two texts.
BlockBrBlock(i) ==
    /\ i + 5 <= Len(trace)
    /\ trace[i].ev = "data" /\ ~AllWhitespace(trace[i].data)
    /\ trace[i + 1].ev = "end" /\ trace[i + 1].tag \in _block
    /\ trace[i + 2].ev = "start" /\ trace[i + 2].tag = "br"
    /\ trace[i + 3].ev = "end"
    /\ trace[i + 4].ev = "start" /\ trace[i + 4].tag \in _block
    /\ trace[i + 5].ev = "data" /\ ~AllWhitespace(trace[i + 5].data)

\* A block close, a br and a block open between two texts yield "\n"
\* followed by "\n\n" between the last word of the first text and the first
\* word of the second.
BlockBrBlockText ==
    Returned =>
        \A i \in 1..Len(trace) :
            (BlockBrBlock(i) /\ ~trace[i].ignoring) =>
                LET w == WrittenBy(i + 5)
                IN /\ parser.output[trace[i + 3].pos] \notin Whitespace
                   /\ WrittenBy(i + 3) = <<"\n">>
                   /\ WrittenBy(i + 4) = <<>>
                   /\ Len(w) >= 3
                   /\ SubSeq(w, 1, 2) = <<"\n", "\n">>
                   /\ w[3] \notin Whitespace

\* C22: a br element outside ignored content writes exactly one newline at
\* its close, directly and at once: it does not queue a separator, and it
\* neither flushes nor clears a separator that is already pending (so a
\* block close, a br and a block open between two texts yield "\n" followed
\* by "\n\n").
C22_BrWritesNewline == [][BrWritesAtOnce]_vars /\ []BlockBrBlockText

\* A block close, a br and a block open between two padded texts have
\* been converted.
C22_Witness ==
    /\ Returned
    /\ \E i \in 1..Len(trace) :
          /\ BlockBrBlock(i)
          /\ trace[i].data = <<" ", "b", " ">> /\ trace[i + 5].data = <<" ", "b", " ">>
          /\ SubSeq(parser.output, trace[i + 3].pos, trace[i + 3].pos + 4)
                = <<"b", "\n", "\n", "\n", "b">>

\* ------------------------------------------------------------ C23

\* The close of an hr element outside ignored content appends a newline
\* and 80 dashes to the output and leaves the pending separator and the
\* owed spaces as they were.
HrAppendsRule ==
    ClosesOutsideIgnored("hr") =>
        /\ parser'.output = parser.output \o <<"\n">> \o Dashes(80)
        /\ parser'.add = parser.add
        /\ parser'.final_space = parser.final_space
        /\ parser'.initial_space = parser.initial_space

\* Event k is the close of an hr element outside ignored content and the
\* next event is its tail, a text that begins with a word.
HrThenText(k) ==
    /\ k + 1 <= Len(trace)
    /\ trace[k].ev = "end" /\ trace[k].tag = "hr" /\ ~trace[k].ignoring
    /\ trace[k + 1].ev = "data" /\ trace[k + 1].data[1] \notin Whitespace
    /\ k + 1 < Len(trace) \/ pc = "done"

\* The text following an hr element is written directly after the dashes.
TextAfterDashes ==
    pc # "raised" =>
        \A k \in 1..Len(trace) :
            HrThenText(k) =>
                /\ trace[k + 1].pos = trace[k].pos + 81
                /\ WrittenBy(k + 1)[1] = trace[k + 1].data[1]

\* C23: an hr element outside ignored content appends exactly a newline
\* followed by 80 dash characters at its close and nothing else (no
\* trailing newline, no pending separator flushed), and text following it
\* is written directly after the dashes.
C23_HrRule == [][HrAppendsRule]_vars /\ []TextAfterDashes

\* The step is the handling of the tail of an hr element that closed
\* outside ignored content, a text that begins with a word, while no
\* separator is pending and no space is owed.
HrTailNothingPending ==
    /\ pc = "walk" /\ Len(trace') = Len(trace) + 1
    /\ trace'[Len(trace')].ev = "data"
    /\ trace'[Len(trace')].data[1] \notin Whitespace
    /\ trace # <<>>
    /\ trace[Len(trace)].ev = "end" /\ trace[Len(trace)].tag = "hr"
    /\ ~trace[Len(trace)].ignoring
    /\ parser.add = <<>> /\ ~parser.final_space /\ ~parser.initial_space

\* What C23 says of an hr element reached while no separator is pending
\* and no space is owed.
C23_NothingPending ==
    /\ [][HrAppendsRule]_vars
    /\ [][HrTailNothingPending =>
            /\ Len(parser'.output) > Len(parser.output)
            /\ parser'.output[Len(parser.output) + 1] = trace'[Len(trace')].data[1]]_vars

\* ------------------------------------------------------------ C24

\* Event j is the text of a dd or dt element opened outside ignored
\* content, a text with something to write, and its handling is over.
TextOfDdDt(j) ==
    /\ j > 1
    /\ trace[j].ev = "data" /\ ~AllWhitespace(trace[j].data)
    /\ trace[j - 1].ev = "start" /\ trace[j - 1].tag \in {"dd", "dt"}
    /\ ~trace[j].ignoring
    /\ j < Len(trace) \/ pc = "done"

\* The text written by event j is one newline and a word when something
\* has been written before it, and begins with a word when nothing has.
OneNewlineBefore(j) ==
    LET w == WrittenBy(j)
    IN IF trace[j].pos > 0
       THEN Len(w) >= 2 /\ w[1] = "\n" /\ w[2] \notin Whitespace
       ELSE Len(w) >= 1 /\ w[1] \notin Whitespace

\* C24: a dd or dt element queues a single "\n" on open: its text is
\* preceded by exactly one newline when some output has already been
\* written, and by nothing when it is the first output of the document.
C24_DdDtOneNewline ==
    pc # "raised" =>
        \A j \in 1..Len(trace) : TextOfDdDt(j) => OneNewlineBefore(j)

\* What C24 says of the documents in which no hr element has closed
\* before the dd or dt element opens.
C24_WithoutRuleBefore ==
    pc # "raised" =>
        \A j \in 1..Len(trace) :
            (TextOfDdDt(j) /\ \A k \in 1..j : ~(trace[k].ev = "end" /\ trace[k].tag = "hr"))
                => OneNewlineBefore(j)

\* ------------------------------------------------------------ C25

\* The step is the open tag of a descendant of an open ignored element.
DescendantOpens ==
    /\ pc = "walk"
    /\ Len(stack') > Len(stack)
    /\ \E k \in 1..Len(stack) : IsIgnoredEl(ElementAt(stack[k]))

\* The step is the close tag of a descendant of an open ignored element.
DescendantCloses ==
    /\ pc = "walk"
    /\ Len(stack') < Len(stack)
    /\ \E k \in 1..(Len(stack) - 1) : IsIgnoredEl(ElementAt(stack[k]))

\* The step invokes no callback and leaves the heading stack, the table
\* stack, the link start and the pending separator as they were.
NoEventFires ==
    /\ parser'.raised = ""
    /\ parser'.nodes = parser.nodes
    /\ parser'.heading_stack = parser.heading_stack
    /\ parser'.table_stack = parser.table_stack
    /\ parser'.link_start = parser.link_start
    /\ parser'.add = parser.add

\* C25: no events fire while ignoring: from the open tag of an ignored
\* element (script, style, title, class=pagenum) until its matching close
\* tag, start and end tags of its descendants never invoke the callback
\* and never change the heading stack, the table stack, the link start or
\* the pending separator.
C25_NoEventsWhileIgnoring ==
    [][(DescendantOpens \/ DescendantCloses) => NoEventFires]_vars

\* What C25 says of the open tags reached while the parser is ignoring.
C25_StartTagsWhileIgnoring ==
    [][(DescendantOpens /\ is_ignoring(parser)) => parser' = parser]_vars

\* ------------------------------------------------------------ C26

\* The NORMAL, PRE or IGNORING condition of a content mode.
Condition(state) ==
    CASE state \in {STARTING_NORMAL, WRITING_NORMAL} -> "NORMAL"
      [] state \in {STARTING_PRE, WRITING_PRE} -> "PRE"
      [] state \in {STARTING_IGNORING, WRITING_IGNORING} -> "IGNORING"

\* The STARTING or WRITING row of a content mode.
Row(state) ==
    IF state \in {STARTING_NORMAL, STARTING_PRE, STARTING_IGNORING}
    THEN "STARTING" ELSE "WRITING"

\* The step is the open tag of an ignored element, reached while the
\* parser is not ignoring: ignoring is entered.
EntersIgnoring ==
    /\ pc = "walk"
    /\ Len(stack') > Len(stack)
    /\ IsIgnoredEl([tag |-> trace'[Len(trace')].tag, attrs |-> trace'[Len(trace')].attrs])
    /\ ~is_ignoring(parser)

\* The step is the close tag of an element at whose open tag ignoring
\* was entered: the matching exit.
MatchingExit ==
    /\ pc = "walk"
    /\ Len(stack') < Len(stack)
    /\ IsIgnoredEl(ElementAt(stack[Len(stack)]))
    /\ ~trace[stack[Len(stack)]].ignoring

\* No ignored element has opened inside the innermost open element.
NoIgnoredInside ==
    \A k \in (stack[Len(stack)] + 1)..Len(trace) :
        ~(trace[k].ev = "start" /\ IsIgnoredEl(ElementAt(k)))

\* Ignoring is entered in the row the parser is in.
EntryKeepsRow ==
    EntersIgnoring =>
        /\ parser'.raised = ""
        /\ Condition(parser'.state) = "IGNORING"
        /\ Row(parser'.state) = Row(parser.state)

\* The exit gives back the condition that held at the open tag.
ExitRestores ==
    /\ parser'.raised = ""
    /\ Condition(parser'.state) = Condition(trace[stack[Len(stack)]].state)

\* C26: ignoring dominates pre and is restored exactly: entering ignoring
\* from a PRE state leads to the IGNORING state of the same STARTING or
\* WRITING row, and the matching exit from ignoring returns the mode to
\* exactly the NORMAL or PRE condition that held when ignoring was entered.
C26_IgnoringRestoresMode ==
    [][EntryKeepsRow /\ (MatchingExit => ExitRestores)]_vars

\* What C26 says of the ignored elements that hold no ignored element.
C26_WithoutNestedIgnored ==
    [][EntryKeepsRow /\ ((MatchingExit /\ NoIgnoredInside) => ExitRestores)]_vars

\* ------------------------------------------------------------ C27

\* C27: mark_writing is irreversible: once the content mode is one of the
\* WRITING states, no start tag, end tag or data fragment processed by
\* the walker brings it back to a STARTING state.
C27_WritingIsIrreversible ==
    [][~is_starting(parser) => ~is_starting(parser')]_vars

\* After the first character was written the walker has entered and left
\* a preformatted element and an ignored element and handled a text, and
\* the mode is WRITING_NORMAL.
C27_Witness ==
    /\ Returned
    /\ parser.state = WRITING_NORMAL
    /\ \E k \in 1..Len(trace) :
          /\ Row(trace[k].state) = "WRITING"
          /\ \E a, b, c \in k..Len(trace) :
                /\ trace[a].state = WRITING_PRE
                /\ trace[b].state = WRITING_IGNORING
                /\ trace[c].ev = "data" /\ trace[c].state = WRITING_NORMAL

\* ------------------------------------------------------------ C28

\* C28: in every reachable state the content mode is a STARTING state if
\* and only if the output buffer is empty, whichever tag or text appended
\* the first character.
C28_StartingIffEmpty == is_starting(parser) <=> parser.output = <<>>

\* What C28 says of the documents in which no hr element has closed.
C28_WithoutRule ==
    (\A k \in 1..Len(trace) : ~(trace[k].ev = "end" /\ trace[k].tag = "hr"))
        => (is_starting(parser) <=> parser.output = <<>>)

\* ------------------------------------------------------------ C29

\* C29: no leading space is inserted immediately after a newline: in
\* normal mode the output never holds a space directly after a newline
\* character, whether the space is owed from whitespace after the line
\* break (text, br, whitespace, text) or from whitespace before it (text,
\* whitespace, br, text).
C29_NoSpaceAfterNewline ==
    \A k \in 1..(Len(parser.output) - 1) :
        ~(parser.output[k] = "\n" /\ parser.output[k + 1] = " ")

\* What C29 says of the texts handled while no space is owed from the
\* text before: nothing written right after a newline is a space.
C29_SpaceOwedAfterBreak ==
    [][(/\ pc = "walk"
        /\ ~parser.final_space
        /\ parser.output # <<>>
        /\ parser.output[Len(parser.output)] = "\n"
        /\ Len(parser'.output) > Len(parser.output))
          => parser'.output[Len(parser.output) + 1] # " "]_vars

\* ------------------------------------------------------------ C30

\* No heading element is open.
NoHeadingOpen == \A k \in 1..Len(stack) : trace[stack[k]].tag \notin _heading_tags

\* The levels of the frames of the heading stack are non-decreasing from
\* bottom to top, and every frame carries the id of a heading node the
\* callback returned.
HeadingStackOrdered ==
    /\ \A k \in 1..(Len(parser.heading_stack) - 1) :
          parser.heading_stack[k].level <= parser.heading_stack[k + 1].level
    /\ \A k \in 1..Len(parser.heading_stack) :
          \E n \in 1..Len(parser.nodes) :
              /\ parser.nodes[n].type = "heading"
              /\ parser.nodes[n].id = parser.heading_stack[k].id

\* C30: heading stack ordering: at every point of a conversion at which
\* no heading element is open, the levels of the frames on the heading
\* stack are non-decreasing from bottom to top and every frame carries an
\* id returned by the callback.
C30_HeadingStackOrdered == NoHeadingOpen => HeadingStackOrdered

\* What C30 says of the documents whose heading elements are not nested in
\* one another or in ignored content.
C30_PlainHeadings == (NoHeadingOpen /\ PlainHeadings) => HeadingStackOrdered

\* ------------------------------------------------------------ C31

\* The indices of the end events of the heading elements, in order: in a
\* document of plain headings the k-th of them emitted the k-th heading
\* event.
HeadingEnds == SelectSeq([i \in 1..Len(trace) |-> i],
                         LAMBDA i : trace[i].ev = "end" /\ trace[i].tag \in _heading_tags)

\* The events between the open tag i and the close tag j whose handling
\* wrote something.
WritersBetween(i, j) == {k \in (i + 1)..(j - 1) : trace[k + 1].pos > trace[k].pos}

\* The least element of a non-empty set of numbers.
Least(S) == CHOOSE x \in S : \A y \in S : x <= y

\* The offset in the output of the first character of the text that the
\* data event k wrote, after the separator and the space written ahead of
\* it: in pre mode the text is the data as it is, in normal mode it begins
\* with the first word.
TextOffset(k) ==
    IF Condition(trace[k].state) = "PRE"
    THEN trace[k + 1].pos - Len(trace[k].data)
    ELSE Least({o \in trace[k].pos..(trace[k + 1].pos - 1) :
                  parser.output[o + 1] \notin Whitespace})

\* The start reported for the heading closed by the m-th heading end event
\* is the offset of the first character of its content.
StartIsFirstCharacter(m) ==
    LET j == HeadingEnds[m]
        i == trace[j].at
        W == WritersBetween(i, j)
    IN W # {} => HeadingEvents[m].start = TextOffset(Least(W))

\* C31: the start offset computed at a heading's open tag is its would-be
\* start: for every heading whose content writes at least one character,
\* the start reported in its heading event equals the offset in the
\* returned text of the first character written for that heading's
\* content, whatever precedes the heading and whatever its first child is
\* (inline text, pre/code, dd/dt).
C31_StartIsWouldBeStart ==
    (pc # "raised" /\ PlainHeadings) =>
        \A m \in 1..Len(HeadingEnds) : StartIsFirstCharacter(m)

\* No pre, code, dd or dt element has opened before the m-th heading end
\* event.
InlineContent(m) ==
    \A k \in 1..HeadingEnds[m] : trace[k].tag \notin _pre_tags \cup {"dd", "dt"}

\* What C31 says of the headings that hold text, inline and block
\* elements only and follow such content only.
C31_InlineContent ==
    (pc # "raised" /\ PlainHeadings) =>
        \A m \in 1..Len(HeadingEnds) : InlineContent(m) => StartIsFirstCharacter(m)

\* ------------------------------------------------------------ C32

\* Event k is a tag boundary that queues a separator.
SetsSeparator(k) ==
    \/ trace[k].ev \in {"start", "end"} /\ trace[k].tag \in _block \cup _heading_tags
    \/ trace[k].ev = "start" /\ trace[k].tag \in _pre_tags \cup {"dd", "dt"}

\* The separator the tag boundary k queues.
SeparatorOf(k) ==
    IF trace[k].tag \in _block \cup _heading_tags THEN <<"\n", "\n">> ELSE <<"\n">>

\* The separator-setting tag boundaries before the data event j with
\* nothing written from them to j.
BoundariesBefore(j) ==
    {k \in 1..(j - 1) : SetsSeparator(k) /\ trace[j].pos = trace[k].pos}

\* The data event j has flushed a separator: something was written for
\* it, not as the first output of a document in normal mode.
Flushed(j) ==
    /\ trace[j].ev = "data"
    /\ j < Len(trace) \/ pc = "done"
    /\ WrittenBy(j) # <<>>
    /\ BoundariesBefore(j) # {}
    /\ trace[j].state # STARTING_NORMAL

\* What event j wrote is the separator sep and then its text.
SeparatorThenText(j, sep) ==
    LET w == WrittenBy(j)
    IN IF Condition(trace[j].state) = "PRE"
       THEN w = sep \o trace[j].data
       ELSE /\ Len(w) > Len(sep)
            /\ SubSeq(w, 1, Len(sep)) = sep
            /\ w[Len(sep) + 1] \notin Whitespace

\* C32: the pending separator is overwritten, not concatenated or
\* maximized: when several separator-setting tag boundaries occur with no
\* text written between them, the separator flushed before the next text
\* is exactly the one queued by the last of those boundaries.
C32_LastSeparatorWins ==
    pc # "raised" =>
        \A j \in 1..Len(trace) :
            Flushed(j) => SeparatorThenText(j, SeparatorOf(Greatest(BoundariesBefore(j))))

\* A block close followed by a pre open has yielded a single "\n": the
\* text of the pre element is right after the newline after the last
\* word of the block.
C32_Witness ==
    /\ Returned
    /\ \E j \in 4..Len(trace) :
          /\ Flushed(j)
          /\ trace[j - 1].ev = "start" /\ trace[j - 1].tag = "pre"
          /\ trace[j - 2].ev = "end" /\ trace[j - 2].tag \in _block
          /\ trace[j - 3].ev = "data"
          /\ WrittenBy(j) = <<"\n">> \o trace[j].data
          /\ parser.output[trace[j].pos] \notin Whitespace

\* ------------------------------------------------------------ C33

MaxNodes == 3

\* The nodes of the trees walked: paragraphs with no text, empty text or
\* text, script elements, comments and processing instructions, with or
\* without a tail.
WalkRoots ==
    {Node("p", NoAttrs, text, tail) : text \in {NoneStr, <<>>, <<"t">>},
                                       tail \in {NoneStr, <<"u">>}}

WalkLabels ==
    WalkRoots \cup {Node("Comment", NoAttrs, <<"c">>, tail) : tail \in {NoneStr, <<"u">>}}
              \cup {Node("PI", NoAttrs, <<"c">>, <<"u">>)}
              \cup {Node("script", NoAttrs, NoneStr, NoneStr)}

InitWalk ==
    \E n \in 1..MaxNodes : \E t \in TreesOf(n, WalkRoots, WalkLabels) : InitCalls(<<t>>)

NextWalk ==
    \E c \in 1..Len(tree) :
        \/ Call(c, TRUE)
        \/ WalkStart(c)
        \/ WalkText(c)
        \/ WalkChildren(c)
        \/ WalkEnd(c)
        \/ WalkTail(c)
        \/ Return(c)

\* A call that can take a step takes it: the walk is sequential code.
SpecWalk == InitWalk /\ [][NextWalk]_vars /\ WF_vars(NextWalk)

RECURSIVE Visit(_, _), VisitAll(_, _)
\* The handlings the walk owes node n, in order: start, own text, the
\* children in order, end, tail; an empty or missing text or tail owes
\* nothing, a comment or processing instruction owes its tail only.
Visit(t, n) ==
    (IF IsElement(t[n])
     THEN <<<<"start", n, <<>>>>>>
            \o (IF TextOf(t[n].text) # <<>> THEN <<<<"data", n, t[n].text>>>> ELSE <<>>)
            \o VisitAll(t, {m \in 1..Len(t) : t[m].parent = n})
            \o <<<<"end", n, <<>>>>>>
     ELSE <<>>)
    \o (IF TextOf(t[n].tail) # <<>> THEN <<<<"tail", n, t[n].tail>>>> ELSE <<>>)

VisitAll(t, S) ==
    IF S = {} THEN <<>> ELSE Visit(t, Least(S)) \o VisitAll(t, S \ {Least(S)})

\* The handler calls made, those of data handling with an empty string left
\* out.
HandlingsMade ==
    LET made == SelectSeq(trace[1], LAMBDA e : e.ev \in {"start", "end"} \/ e.data # <<>>)
    IN [i \in 1..Len(made) |-> <<made[i].ev, made[i].at, made[i].data>>]

Handlings(ev, n) == Cardinality({i \in 1..Len(trace[1]) : trace[1][i].ev = ev /\ trace[1][i].at = n})

WalkIsInOrder ==
    pc[1] = "done" =>
        /\ HandlingsMade = Visit(tree[1], 1)
        /\ \A n \in 1..Len(tree[1]) :
             /\ Handlings("start", n) = (IF IsElement(tree[1][n]) THEN 1 ELSE 0)
             /\ Handlings("end", n) = (IF IsElement(tree[1][n]) THEN 1 ELSE 0)
             /\ Handlings("data", n) <= 1
             /\ Handlings("tail", n) = (IF TextOf(tree[1][n].tail) # <<>> THEN 1 ELSE 0)
             /\ TextOf(tree[1][n].text) # <<>> /\ IsElement(tree[1][n]) => Handlings("data", n) = 1

\* C33: the walk over any finite tree terminates; every element gets one
\* start-tag and one end-tag handling, comments and processing instructions
\* none; the handlings come in the order start, own text, children in
\* order, end, tail; every non-empty text and tail is handled as data once.
C33_WalkVisitsInOrder == <>(pc[1] = "done") /\ []WalkIsInOrder

\* Where C33 holds: a walk ends, by returning or by the exception of a
\* handler, and one that returns has made the handlings in order.
C33_UnlessAHandlerRaises == <>(pc[1] \in {"done", "raised"}) /\ []WalkIsInOrder

\* A finished walk over an element with text that holds a comment with a
\* tail and is followed by a sibling.
C33_Witness ==
    /\ pc[1] = "done"
    /\ \E a, b, d \in 1..Len(tree[1]) :
         /\ tree[1][a].parent = 1 /\ tree[1][a].text = <<"t">>
         /\ tree[1][b].parent = 1 /\ b > a
         /\ \E x \in 1..Len(tree[1]) : ~IsElement(tree[1][x]) /\ tree[1][x].tail = <<"u">>

\* ------------------------------------------------------------ C34

MaxNodesIso == 3

\* The documents of the first conversion: headings, preformatted text and
\* ignored elements below a paragraph, a heading or a table cell.
IsoRoots == {Node("p", NoAttrs, <<"a", " ">>, NoneStr), Node("td", NoAttrs, NoneStr, NoneStr)}

IsoLabels ==
    {Node("h1", NoAttrs, <<"b">>, <<" ", "c">>),
     Node("pre", NoAttrs, <<" ", "d">>, NoneStr),
     Node("script", NoAttrs, <<"x">>, <<"e">>)}

\* The documents of the second conversion: <h2>f <td>g</td></h2> and
\* <p>h<script>y</script> i</p>.
IsoOthers ==
    {<<Node("h2", NoAttrs, <<"f", " ">>, NoneStr),
       [Node("td", NoAttrs, <<"g">>, NoneStr) EXCEPT !.parent = 1]>>,
     <<Node("p", NoAttrs, <<"h">>, NoneStr),
       [Node("script", NoAttrs, <<"y">>, <<" ", "i">>) EXCEPT !.parent = 1]>>}

InitIso ==
    \E n \in 1..MaxNodesIso : \E t \in TreesOf(n, IsoRoots, IsoLabels) :
        \E u \in IsoOthers : InitCalls(<<t, u>>)

\* Two calls of html_to_text, each with a callback of its own; their steps
\* interleave in any order, which includes one call after the other.
NextIso ==
    \E c \in 1..Len(tree) :
        \/ Call(c, TRUE)
        \/ WalkStart(c)
        \/ WalkText(c)
        \/ WalkChildren(c)
        \/ WalkEnd(c)
        \/ WalkTail(c)
        \/ Return(c)

SpecIso == InitIso /\ [][NextIso]_vars

\* Conversion c when it runs alone: the parser after as many handler calls
\* as c has made, and after it has returned.
AloneSoFar(c) ==
    parse_tag(NewParser(TRUE, 0, <<>>),
              SubSeq(events_of(tree[c], 1), 1, Len(trace[c])), 1, <<>>)

Alone(c) == html_to_text(events_of(tree[c], 1), TRUE, 0, <<>>)

\* C34: conversions are isolated: however the steps of two conversions of
\* different documents interleave, the buffer, flags, content mode, stacks
\* and emitted events of each are at every step those of the same
\* conversion running alone, and so is what it returns.
C34_ConversionsAreIsolated ==
    \A c \in 1..Len(tree) :
        /\ pc[c] \in {"walk", "raised"} => parser[self(c)] = AloneSoFar(c)
        /\ pc[c] = "done" => parser[self(c)] = Alone(c)

\* Both conversions are under way, each has written text, one has a heading
\* open and the other a table cell.
C34_Witness ==
    /\ pc[1] = "walk" /\ pc[2] = "walk"
    /\ parser[1].output # <<>> /\ parser[2].output # <<>>
    /\ parser[1].output # parser[2].output
    /\ parser[1].heading_stack # <<>>
    /\ parser[2].table_stack # <<>>

\* The second conversion starts after the first has returned its text.
C34_OneAfterTheOther ==
    /\ pc[1] = "done" /\ parser[1].output # <<>> /\ parser[1].nodes # <<>>
    /\ pc[2] = "done" /\ parser[2].output # <<>>
    /\ parser[2] = Alone(2)

\* ------------------------------------------------------------ C35

MaxEventsRaise == 7

MaxDepthRaise == 3

\* A page marker that has no id attribute.
PagenumWithoutId == [tag |-> "span", attrs |-> [class |-> "pagenum"]]

InitRaise == InitWith({TRUE}, {0}, {<<>>})

\* Well-formed trees of ignored elements, headings, table cells, page
\* markers with and without an id and paragraphs, with a callback that
\* returns a mapping with an id.
NextRaise ==
    \/ \E e \in {El("script"), El("h1"), El("td"), El("p"),
                 Pagenum(<<"p", "1">>), PagenumWithoutId} :
          StartTag(e, MaxEventsRaise, MaxDepthRaise)
    \/ \E d \in {<<"a">>} : Data(d, MaxEventsRaise)
    \/ EndTag
    \/ Finish

SpecRaise == InitRaise /\ [][NextRaise]_vars

\* C35: the conversion of a well-formed tree with a callback that returns a
\* mapping with an id never raises: no trigger without a transition, no pop
\* of an empty heading or table stack, no failed attribute lookup.
C35_NeverRaises == parser.raised = ""

\* An ignored element inside an ignored element has been closed and so has
\* the outer one.
NestedIgnoredClosed ==
    \E i, j \in 1..Len(trace) :
        /\ trace[i].ev = "end" /\ IsIgnoredEl(trace[i])
        /\ trace[j].ev = "end" /\ IsIgnoredEl(trace[j])
        /\ trace[i].at > trace[j].at /\ i < j

\* A heading or table element inside an ignored element has been closed.
ClosedInsideIgnored(tag) ==
    \E i \in 1..Len(trace) :
        /\ trace[i].ev = "end" /\ trace[i].tag = tag
        /\ \E a \in 1..Len(trace[i].anc) : IsIgnoredEl(trace[trace[i].anc[a]])

\* A page marker without an id has been closed.
PagenumWithoutIdClosed ==
    \E i \in 1..Len(trace) :
        trace[i].ev = "end" /\ trace[i].attrs = PagenumWithoutId.attrs

\* Where C35 holds: a document without the cases the claim lists converts
\* without an exception.
C35_OutsideTheListedCases ==
    (~NestedIgnoredClosed /\ ~ClosedInsideIgnored("h1") /\ ~ClosedInsideIgnored("td")
       /\ ~PagenumWithoutIdClosed)
    => parser.raised = ""

\* Each listed case ends in its exception.
C35_NestedIgnoredRaises == NestedIgnoredClosed /\ parser.raised = "MachineError"

C35_HeadingInsideIgnoredRaises ==
    ClosedInsideIgnored("h1") /\ parser.raised = "IndexError" /\ parser.heading_stack = <<>>

C35_TableInsideIgnoredRaises ==
    ClosedInsideIgnored("td") /\ parser.raised = "IndexError" /\ parser.table_stack = <<>>

C35_PagenumWithoutIdRaises == PagenumWithoutIdClosed /\ parser.raised = "KeyError"

\* ------------------------------------------------------------ C36

MaxEventsText == 7

MaxDepthText == 2

\* The same tree converted with a callback, at base offset 0 or Shift, with
\* or without a source path, and converted with no callback, base offset 0
\* and an empty path.
InitText ==
    /\ trace = <<>>
    /\ stack = <<>>
    /\ pc = "walk"
    /\ \E startpos \in {0, Shift}, file \in {<<>>, <<"d", "/", "f">>} :
          parser = NewParser(TRUE, startpos, file)
    /\ twin = [on |-> TRUE, p |-> NewParser(FALSE, 0, <<>>)]
    /\ tree = <<>>

NextText ==
    \/ \E e \in {El("h1"), El("td"), El("dd"), El("script"), Link(<<"x">>),
                 Pagenum(<<"p", "1">>), WithId("p")} :
          StartTag(e, MaxEventsText, MaxDepthText)
    \/ \E d \in {<<"a">>, <<" ", "b", " ">>} : Data(d, MaxEventsText)
    \/ EndTag
    \/ Finish

SpecText == InitText /\ [][NextText]_vars

\* C36: the returned text depends on the tree only: when the conversion
\* with a callback, a base offset and a source path and the conversion with
\* no callback, base offset 0 and an empty path both complete, they return
\* the same text.
C36_TextDependsOnTreeOnly ==
    (pc = "done" /\ parser.raised = "" /\ twin.p.raised = "")
        => parser.output = twin.p.output

\* Both conversions have returned text with a separator in it, the one with
\* the callback at a base offset, with a path, and with heading, link, table,
\* id and page events emitted.
C36_Witness ==
    /\ pc = "done" /\ parser.raised = "" /\ twin.p.raised = ""
    /\ parser.startpos = Shift /\ parser.file # <<>>
    /\ ~twin.p.node_parsed_callback
    /\ \E i \in 1..Len(parser.output) : parser.output[i] = "\n"
    /\ Len(parser.nodes) >= 2
    /\ twin.p.nodes = <<>>

\* ------------------------------------------------------------ C37

MaxEventsOwed == 7

MaxDepthOwed == 2

InitOwed == InitWith({FALSE}, {0}, {<<>>})

\* Normal mode only: texts with and without a trailing or leading space
\* among inline elements and elements that queue a separator.
NextOwed ==
    \/ \E e \in {El("span"), El("dd"), El("p")} :
          StartTag(e, MaxEventsOwed, MaxDepthOwed)
    \/ \E d \in {<<"a">>, <<"a", " ">>, <<" ", "a">>, <<" ">>} : Data(d, MaxEventsOwed)
    \/ EndTag
    \/ Finish

SpecOwed == InitOwed /\ [][NextOwed]_vars

\* The data events i and j wrote two fragments one after the other: both
\* wrote something and nothing was written in between.
ConsecutiveFragments(i, j) ==
    /\ i < j
    /\ trace[i].ev = "data" /\ trace[j].ev = "data"
    /\ j < Len(trace) \/ pc = "done"
    /\ WrittenBy(i) # <<>> /\ WrittenBy(j) # <<>>
    /\ trace[j].pos = trace[i + 1].pos

\* A space stands between the fragment before and the first word of what
\* the data event j wrote.
SpaceWrittenBefore(j) ==
    \E n \in 1..Len(WrittenBy(j)) :
        /\ WrittenBy(j)[n] = " "
        /\ \A m \in 1..(n - 1) : WrittenBy(j)[m] \in Whitespace

\* The source has whitespace at the end of the text i, at the start of the
\* text j or as a text of its own between the two.
SourceHasWhitespace(i, j) ==
    \/ trace[i].data[Len(trace[i].data)] \in Whitespace
    \/ trace[j].data[1] \in Whitespace
    \/ \E k \in (i + 1)..(j - 1) : trace[k].ev = "data" /\ AllWhitespace(trace[k].data)

\* C37: a space is written between two consecutively written normal-mode
\* fragments only if the source has whitespace at the end of the earlier
\* one, at the start of the later one or in a whitespace-only text between
\* them.
C37_SpaceOnlyFromSource ==
    \A i, j \in 1..Len(trace) :
        (ConsecutiveFragments(i, j) /\ SpaceWrittenBefore(j)) => SourceHasWhitespace(i, j)

\* No text with a trailing space is followed by a queued separator: the
\* owed space is written by the next text or not owed at all.
NoSeparatorOverOwedSpace ==
    \A i \in 1..Len(trace) :
        (trace[i].ev = "data" /\ trace[i].data[Len(trace[i].data)] \in Whitespace)
            => \A k \in (i + 1)..Len(trace) : ~SetsSeparator(k)

\* Where C37 holds: as long as no separator is queued after a text with a
\* trailing space.
C37_WithoutSeparatorOverOwedSpace == NoSeparatorOverOwedSpace => C37_SpaceOnlyFromSource

\* ------------------------------------------------------------ C38

MaxEventsNest == 8

MaxDepthNest == 3

InitNest == InitWith({TRUE}, {0}, {<<>>})

\* Headings of two levels inside one another, inside ignored elements and
\* after them, with text, with a callback.
NextNest ==
    \/ \E e \in {El("h1"), El("h2"), El("script")} :
          StartTag(e, MaxEventsNest, MaxDepthNest)
    \/ \E d \in {<<"a">>} : Data(d, MaxEventsNest)
    \/ EndTag
    \/ Finish

SpecNest == InitNest /\ [][NextNest]_vars

\* The parser as it was when the walk reached event i.
ParserBefore(i) ==
    parse_tag(NewParser(parser.node_parsed_callback, parser.startpos, parser.file),
              SubSeq(trace, 1, i - 1), 1, <<>>)

\* No heading frame.
NoFrame == [level |-> 0, start |-> None, id |-> None]

\* The frame on top of the heading stack of p.
TopFrame(p) ==
    IF p.heading_stack = <<>> THEN NoFrame ELSE p.heading_stack[Len(p.heading_stack)]

\* The frame pushed when the element of the start event i opened.
FramePushedAt(i) ==
    LET before == ParserBefore(i)
        after == handle_starttag(before, trace[i].tag, trace[i].attrs)
    IN IF Len(after.heading_stack) > Len(before.heading_stack)
       THEN TopFrame(after) ELSE NoFrame

\* The frame popped when the heading of the end event j closed.
FramePoppedAt(j) == TopFrame(ParserBefore(j))

\* The heading event emitted at the end event j.
HeadingEventAt(j) ==
    LET before == ParserBefore(j)
        after == handle_endtag(before, trace[j].tag,
                               [attrib |-> trace[j].attrs, string |-> <<>>])
    IN after.nodes[Len(before.nodes) + 1]

\* The heading of the end event j is paired with its own frame: the frame
\* popped is the one its open tag pushed, and the event carries the start
\* of that frame and the level of the element.
PairsWithOwnFrame(j) ==
    /\ FramePushedAt(trace[j].at) # NoFrame
    /\ FramePoppedAt(j) = FramePushedAt(trace[j].at)
    /\ HeadingEventAt(j).start = FramePushedAt(trace[j].at).start
    /\ HeadingEventAt(j).level = LastChar(trace[j].tag)
    /\ FramePoppedAt(j).level = heading_levels[trace[j].tag]

\* The end events of heading elements that were handled without an
\* exception.
HeadingCloses ==
    {j \in 1..Len(trace) : /\ trace[j].ev = "end"
                           /\ trace[j].tag \in _heading_tags
                           /\ j < Len(trace) \/ parser.raised = ""}

\* C38: the frame popped when a heading element closes is the frame pushed
\* when that same element opened, so the start and level of its heading
\* event are its own; also for headings inside headings and for headings
\* after an ignored subtree that holds heading tags.
C38_FramesPairWithOwnElement == \A j \in HeadingCloses : PairsWithOwnFrame(j)

\* No heading element is inside a heading or inside an ignored element.
HeadingsApart ==
    \A i \in 1..Len(trace) :
        (trace[i].ev = "start" /\ trace[i].tag \in _heading_tags) =>
            \A a \in 1..Len(trace[i].anc) :
                /\ trace[trace[i].anc[a]].tag \notin _heading_tags
                /\ ~IsIgnoredEl(trace[trace[i].anc[a]])

\* Where C38 holds: headings that are neither nested in one another nor
\* inside ignored elements.
C38_HeadingsApart == HeadingsApart => C38_FramesPairWithOwnElement

\* A heading with text of its own has closed after another heading.
C38_SecondHeadingClosed ==
    /\ HeadingsApart
    /\ \E j, k \in HeadingCloses : j < k /\ trace[k - 1].ev = "data"

\* The close of a heading tag inside an ignored element has popped the
\* frame of a heading before the ignored element.
C38_PoppedInsideIgnored ==
    \E j \in HeadingCloses :
        /\ \E a \in 1..Len(trace[j].anc) : IsIgnoredEl(trace[trace[j].anc[a]])
        /\ FramePushedAt(trace[j].at) = NoFrame
        /\ FramePoppedAt(j) # NoFrame

\* ------------------------------------------------------------ C39

\* The indices of the start events of the table-structural elements whose
\* open tag was handled, in order: those reached while not ignoring.
TableOpens ==
    SelectSeq([i \in 1..Len(trace) |-> i],
              LAMBDA i : /\ trace[i].ev = "start"
                         /\ trace[i].tag \in TableStructural
                         /\ ~trace[i].ignoring)

\* C39: with a callback, the node returned for a table-structural open tag
\* has no end until the element's own close and from then on the position
\* reached at that close, and after the conversion the table stack is
\* empty; also with table-structural elements inside or around ignored
\* elements.
C39_TableStackBalanced ==
    parser.raised = "" =>
        /\ Len(TableEvents) = Len(TableOpens)
        /\ \A k \in 1..Len(TableEvents) :
              TableEvents[k].end = IF EndOf(TableOpens[k]) = 0 THEN None
                                   ELSE trace[EndOf(TableOpens[k])].pos + parser.startpos
        /\ Returned => parser.table_stack = <<>>

\* Where C39 holds: no table-structural element inside ignored content.
C39_PlainTables == PlainTables => C39_TableStackBalanced

\* A table with a row and a cell with text has been converted, an ignored
\* element beside the cell.
C39_AroundIgnored ==
    /\ Returned /\ PlainTables
    /\ Len(TableEvents) = 3
    /\ \E i \in 1..Len(trace) : trace[i].ev = "start" /\ trace[i].tag = "script"
                                  /\ Len(trace[i].anc) >= 2
    /\ TableEvents[3].end > TableEvents[3].start

\* ------------------------------------------------------------ C40

\* The output is not empty and its last character is a newline.
EndsWithNewline(p) == p.output # <<>> /\ p.output[Len(p.output)] = "\n"

\* C40: in every reachable state last_newline is true exactly when the
\* output is not empty and ends with a newline, whichever handler wrote
\* the last character: text, pending separator, br or hr.
C40_LastNewlineTracksOutput == parser.last_newline <=> EndsWithNewline(parser)

\* No hr element has closed.
NoRuleWritten == \A k \in 1..Len(trace) : ~(trace[k].ev = "end" /\ trace[k].tag = "hr")

\* Where C40 holds: as long as no rule was written.
C40_WithoutRule == NoRuleWritten => C40_LastNewlineTracksOutput

\* A line break was the last thing written, after text.
C40_AfterBreak ==
    /\ NoRuleWritten
    /\ parser.last_newline
    /\ Len(parser.output) >= 2

====
